---- MODULE Spec2Model ----
(***************************************************************************)
(* A model of package phperjson (go-phper-json): the Decoder, its          *)
(* type-directed decode engine (decode.go) and the numeric conversions it  *)
(* relies on.                                                              *)
(*                                                                         *)
(* Text (JSON strings, number literals, object keys, field names) is a     *)
(* sequence of one-character strings, so that parsing is computed and not  *)
(* assumed.  Integers of 64 bits and more are naturals held as sequences   *)
(* of 15-bit limbs, least significant limb first, without leading zero     *)
(* limbs (zero is the empty sequence).                                     *)
(***************************************************************************)
EXTENDS Integers, Sequences, FiniteSets, TLC

\* ------------------------------------------------------------------------
\* Small integer helpers
\* ------------------------------------------------------------------------
RECURSIVE Pow2(_)
Pow2(n) == IF n <= 0 THEN 1 ELSE 2 * Pow2(n - 1)

Max2(a, b) == IF a >= b THEN a ELSE b

Min2(a, b) == IF a <= b THEN a ELSE b

\* naturals are held in limbs of LimbBits bits
LimbBits == 15

Base == Pow2(LimbBits)

\* number of significant bits of a limb
LimbLen(l) == IF l = 0 THEN 0 ELSE CHOOSE n \in 1..LimbBits : Pow2(n - 1) <= l /\ l < Pow2(n)

\* ------------------------------------------------------------------------
\* Naturals of arbitrary size
\* ------------------------------------------------------------------------
NZero == << >>

RECURSIVE NTrim(_)
NTrim(x) == IF x = << >> THEN << >>
            ELSE IF x[Len(x)] = 0 THEN NTrim(SubSeq(x, 1, Len(x) - 1))
            ELSE x

\* x * k + c for a small factor k and a small carry c
RECURSIVE NMulAdd(_, _, _)
NMulAdd(x, k, c) ==
  IF x = << >> THEN (IF c = 0 THEN << >> ELSE <<c % Base>> \o NMulAdd(<< >>, k, c \div Base))
  ELSE LET t == x[1] * k + c
       IN  NTrim(<<t % Base>> \o NMulAdd(Tail(x), k, t \div Base))

NInc(x) == NMulAdd(x, 1, 1)

\* quotient and remainder of x by a small divisor k
RECURSIVE NDivRem(_, _)
NDivRem(x, k) ==
  IF x = << >> THEN [q |-> << >>, r |-> 0]
  ELSE LET hi == NDivRem(Tail(x), k)
           cur == hi.r * Base + x[1]
       IN  [q |-> NTrim(<<cur \div k>> \o hi.q), r |-> cur % k]

RECURSIVE NCmpFrom(_, _, _)
NCmpFrom(x, y, i) ==
  IF i = 0 THEN 0
  ELSE IF x[i] < y[i] THEN -1
  ELSE IF x[i] > y[i] THEN 1
  ELSE NCmpFrom(x, y, i - 1)

\* -1, 0, 1 as x is below, equal to, above y
NCmp(x, y) ==
  IF Len(x) < Len(y) THEN -1
  ELSE IF Len(x) > Len(y) THEN 1
  ELSE NCmpFrom(x, y, Len(x))

NLe(x, y) == NCmp(x, y) <= 0

NLt(x, y) == NCmp(x, y) < 0

NBitLen(x) == IF x = << >> THEN 0 ELSE LimbBits * (Len(x) - 1) + LimbLen(x[Len(x)])

\* bit i (bit 0 is the least significant)
NBit(x, i) ==
  LET l == (i \div LimbBits) + 1
  IN  IF i < 0 \/ l > Len(x) THEN 0 ELSE (x[l] \div Pow2(i % LimbBits)) % 2

NOdd(x) == NBit(x, 0) = 1

\* floor(x / 2^s)
NShr(x, s) ==
  LET d == s \div LimbBits
      r == s % LimbBits
      n == Len(x) - d
  IN  IF s <= 0 THEN x
      ELSE IF n <= 0 THEN << >>
      ELSE NTrim([i \in 1..n |->
                   (x[i + d] \div Pow2(r))
                   + (IF i + d + 1 <= Len(x)
                      THEN (x[i + d + 1] % Pow2(r)) * Pow2(LimbBits - r)
                      ELSE 0)])

\* x mod 2^s = 0
NLowZero(x, s) ==
  LET d == s \div LimbBits
      r == s % LimbBits
  IN  IF s <= 0 THEN TRUE
      ELSE /\ \A j \in 1..Min2(d, Len(x)) : x[j] = 0
           /\ (d + 1 > Len(x) \/ x[d + 1] % Pow2(r) = 0)

\* x * 2^s
NShl(x, s) ==
  LET d == s \div LimbBits
      r == s % LimbBits
  IN  IF x = << >> \/ s <= 0 THEN x
      ELSE [i \in 1..d |-> 0] \o NMulAdd(x, Pow2(r), 0)

\* 2^s
NPow2(s) == NShl(<<1>>, s)

\* number of trailing zero bits of x > 0
NTrailingZeros(x) == CHOOSE t \in 0..NBitLen(x) : NBit(x, t) = 1 /\ NLowZero(x, t)

RECURSIVE NMulPow10(_, _)
NMulPow10(x, k) == IF k <= 0 THEN x ELSE NMulPow10(NMulAdd(x, 10, 0), k - 1)

\* floor(x / 10^k), with the fact that something was cut off
RECURSIVE NDivPow10(_, _)
NDivPow10(x, k) ==
  IF k <= 0 THEN [q |-> x, sticky |-> FALSE]
  ELSE LET a == NDivRem(x, 10)
           b == NDivPow10(a.q, k - 1)
       IN  [q |-> b.q, sticky |-> (a.r # 0 \/ b.sticky)]

\* x - y for x >= y
RECURSIVE NSubB(_, _, _)
NSubB(x, y, borrow) ==
  IF x = << >> THEN << >>
  ELSE LET yy == IF y = << >> THEN 0 ELSE y[1]
           t == x[1] - yy - borrow
       IN  IF t < 0
           THEN <<t + Base>> \o NSubB(Tail(x), IF y = << >> THEN << >> ELSE Tail(y), 1)
           ELSE <<t>> \o NSubB(Tail(x), IF y = << >> THEN << >> ELSE Tail(y), 0)

NSub(x, y) == NTrim(NSubB(x, y, 0))

\* ------------------------------------------------------------------------
\* Text
\* ------------------------------------------------------------------------
DigitChars == <<"0", "1", "2", "3", "4", "5", "6", "7", "8", "9">>

IsDigit(c) == \E i \in 1..10 : DigitChars[i] = c

DigitVal(c) == (CHOOSE i \in 1..10 : DigitChars[i] = c) - 1

\* first position at or after i that does not hold a digit
RECURSIVE DigitsEnd(_, _)
DigitsEnd(t, i) == IF i <= Len(t) /\ IsDigit(t[i]) THEN DigitsEnd(t, i + 1) ELSE i

RECURSIVE NFromDigitsAcc(_, _)
NFromDigitsAcc(ds, acc) ==
  IF ds = << >> THEN acc ELSE NFromDigitsAcc(Tail(ds), NMulAdd(acc, 10, DigitVal(Head(ds))))

\* the natural written by a run of digits
NFromDigits(ds) == NFromDigitsAcc(ds, NZero)

RECURSIVE NToDigits(_)
NToDigits(x) ==
  IF x = << >> THEN << >>
  ELSE LET a == NDivRem(x, 10) IN NToDigits(a.q) \o <<DigitChars[a.r + 1]>>

\* decimal text of a natural (strconv.FormatUint / strconv.Itoa for n >= 0)
NFormat(x) == IF x = << >> THEN <<"0">> ELSE NToDigits(x)

\* a small integer written by a run of digits, capped as strconv caps exponents
ExpCap == 10000

RECURSIVE SmallFromDigitsAcc(_, _)
SmallFromDigitsAcc(ds, acc) ==
  IF ds = << >> THEN acc
  ELSE SmallFromDigitsAcc(Tail(ds), Min2(ExpCap, acc * 10 + DigitVal(Head(ds))))

SmallFromDigits(ds) == SmallFromDigitsAcc(ds, 0)

\* The decimal floating-point syntax shared by strconv.ParseFloat (readFloat)
\* and big.Float.Parse in base 10:  [sign] digits [ "." digits ] [ e [sign] digits ]
\* with at least one mantissa digit, and the whole text consumed.
ScanDecimal(t) ==
  LET sgn == IF Len(t) >= 1 /\ t[1] \in {"+", "-"} THEN 1 ELSE 0
      \* i2, j2, k2: the ends of the integer digits, the fraction digits and
      \* the exponent digits; k1: the start of the exponent digits
      AfterExp(i2, dot, j2, hasE, k1, k2) ==
        [ok   |-> /\ (i2 > sgn + 1 \/ j2 > i2 + 1)
                  /\ (hasE => k2 > k1)
                  /\ k2 = Len(t) + 1,
         neg  |-> (sgn = 1 /\ t[1] = "-"),
         plus |-> (sgn = 1 /\ t[1] = "+"),
         ip   |-> SubSeq(t, sgn + 1, i2 - 1),
         fp   |-> SubSeq(t, i2 + 1, j2 - 1),
         dot  |-> dot,
         hasE |-> hasE,
         D    |-> NFromDigits(SubSeq(t, sgn + 1, i2 - 1) \o SubSeq(t, i2 + 1, j2 - 1)),
         E    |-> (IF hasE /\ t[k1 - 1] = "-" THEN 0 - 1 ELSE 1)
                    * SmallFromDigits(IF hasE THEN SubSeq(t, k1, k2 - 1) ELSE << >>)
                  - Len(SubSeq(t, i2 + 1, j2 - 1))]
      AfterSign(i2, dot, j2, hasE, k1) ==
        AfterExp(i2, dot, j2, hasE, k1, IF hasE THEN DigitsEnd(t, k1) ELSE j2)
      AfterMark(i2, dot, j2, hasE) ==
        AfterSign(i2, dot, j2, hasE,
                  IF hasE /\ j2 + 1 <= Len(t) /\ t[j2 + 1] \in {"+", "-"} THEN j2 + 2 ELSE j2 + 1)
      AfterFrac(i2, dot, j2) == AfterMark(i2, dot, j2, j2 <= Len(t) /\ t[j2] \in {"e", "E"})
      AfterDot(i2, dot) == AfterFrac(i2, dot, IF dot THEN DigitsEnd(t, i2 + 1) ELSE i2)
      AfterInt(i2) == AfterDot(i2, i2 <= Len(t) /\ t[i2] = ".")
  IN  AfterInt(DigitsEnd(t, sgn + 1))

\* the grammar of a JSON number literal (what the tokenizer lets through)
IsJSONNumber(t) ==
  LET Check(sc) ==
        /\ sc.ok
        /\ ~sc.plus
        /\ sc.ip # << >>
        /\ (Len(sc.ip) > 1 => sc.ip[1] # "0")
        /\ (sc.dot => sc.fp # << >>)
  IN  Check(ScanDecimal(t))

Uppers == <<"A", "B", "C", "D", "E", "F", "G", "H", "I", "J", "K", "L", "M",
            "N", "O", "P", "Q", "R", "S", "T", "U", "V", "W", "X", "Y", "Z">>

Lowers == <<"a", "b", "c", "d", "e", "f", "g", "h", "i", "j", "k", "l", "m",
            "n", "o", "p", "q", "r", "s", "t", "u", "v", "w", "x", "y", "z">>

\* the ASCII characters of the model's texts, in byte order
Ascii ==
  <<" ", "!", "\"", "#", "$", "%", "&", "'", "(", ")", "*", "+", ",", "-", ".", "/",
    "0", "1", "2", "3", "4", "5", "6", "7", "8", "9", ":", ";", "<", "=", ">", "?", "@",
    "A", "B", "C", "D", "E", "F", "G", "H", "I", "J", "K", "L", "M",
    "N", "O", "P", "Q", "R", "S", "T", "U", "V", "W", "X", "Y", "Z",
    "[", "\\", "]", "^", "_",
    "a", "b", "c", "d", "e", "f", "g", "h", "i", "j", "k", "l", "m",
    "n", "o", "p", "q", "r", "s", "t", "u", "v", "w", "x", "y", "z",
    "{", "|", "}", "~">>

\* the byte of a character
CharCode(c) ==
  LET At(i) == IF i <= 64 THEN 31 + i ELSE 32 + i
  IN  At(CHOOSE i \in 1..Len(Ascii) : Ascii[i] = c)

\* a < b on strings, byte by byte
RECURSIVE TextLess(_, _)
TextLess(a, b) ==
  IF b = << >> THEN FALSE
  ELSE IF a = << >> THEN TRUE
  ELSE IF Head(a) # Head(b) THEN CharCode(Head(a)) < CharCode(Head(b))
  ELSE TextLess(Tail(a), Tail(b))

\* the position of the first c in t, or 0
IndexByte(t, c) ==
  IF \E i \in 1..Len(t) : t[i] = c THEN CHOOSE i \in 1..Len(t) : t[i] = c /\ \A j \in 1..(i - 1) : t[j] # c
  ELSE 0

LowerChar(c) ==
  IF \E i \in 1..26 : Uppers[i] = c THEN Lowers[CHOOSE i \in 1..26 : Uppers[i] = c] ELSE c

LowerText(t) == [i \in 1..Len(t) |-> LowerChar(t[i])]

\* ------------------------------------------------------------------------
\* Signed integers:  [neg, mag], zero is never negative
\* ------------------------------------------------------------------------
MkInt(neg, mag) == [neg |-> (neg /\ mag # NZero), mag |-> mag]

IntZero == MkInt(FALSE, NZero)

IntOne == MkInt(FALSE, <<1>>)

Small(n) == IF n < 0 THEN MkInt(TRUE, NMulAdd(NZero, 1, 0 - n)) ELSE MkInt(FALSE, NMulAdd(NZero, 1, n))

MaxInt64 == MkInt(FALSE, NSub(NPow2(63), <<1>>))

MinInt64 == MkInt(TRUE, NPow2(63))

MaxUint64 == NSub(NPow2(64), <<1>>)

\* x < y on signed integers
ILt(x, y) ==
  IF x.neg /\ ~y.neg THEN TRUE
  ELSE IF ~x.neg /\ y.neg THEN FALSE
  ELSE IF x.neg THEN NLt(y.mag, x.mag)
  ELSE NLt(x.mag, y.mag)

\* decimal text of a signed integer (strconv.FormatInt)
IFormat(x) == IF x.neg THEN <<"-">> \o NFormat(x.mag) ELSE NFormat(x.mag)

\* ------------------------------------------------------------------------
\* Binary floating point.  A float is [cls, neg, m, e]: for cls = "fin" its
\* value is (-1)^neg * m * 2^e with m odd, or m = 0 and e = 0.
\* ------------------------------------------------------------------------
FNorm(neg, m, e) ==
  LET Shifted(t) == [cls |-> "fin", neg |-> neg, m |-> NShr(m, t), e |-> e + t]
  IN  IF m = NZero THEN [cls |-> "fin", neg |-> neg, m |-> NZero, e |-> 0]
      ELSE Shifted(NTrailingZeros(m))

FInf(neg) == [cls |-> "inf", neg |-> neg, m |-> NZero, e |-> 0]

FNaN == [cls |-> "nan", neg |-> FALSE, m |-> NZero, e |-> 0]

FZero == FNorm(FALSE, NZero, 0)

FOne == FNorm(FALSE, <<1>>, 0)

FIsZero(f) == f.cls = "fin" /\ f.m = NZero

\* position of the leading bit: 2^(FExp-1) <= |f| < 2^FExp, as big.Float's exp
FExp(f) == NBitLen(f.m) + f.e

FIsInt(f) == f.cls = "fin" /\ f.e >= 0

\* integer part of |f|
FTruncMag(f) == IF f.e >= 0 THEN NShl(f.m, f.e) ELSE NShr(f.m, 0 - f.e)

\* The decimal D * 10^E rounded to prec significant bits, keeping the lowest
\* bit at 2^emin or above.  mode is "even" (nearest, ties to even) or "zero".
RoundDecimal(neg, D, E, prec, emin, mode) ==
  LET s == IF E >= 0 THEN 0 ELSE 4 * (0 - E) + prec + 8
      \* q := floor(D * 10^E * 2^s), t the number of low bits to drop, m0 the rest
      Rounded(q, sticky, t, m0) ==
        FNorm(neg,
              IF /\ mode = "even"
                 /\ t > 0
                 /\ NBit(q, t - 1) = 1
                 /\ (sticky \/ ~NLowZero(q, t - 1) \/ NOdd(m0))
              THEN NInc(m0) ELSE m0,
              t - s)
      Cut(q, sticky, t) == Rounded(q, sticky, t, NShr(q, t))
      Scaled(dv) == Cut(dv.q, dv.sticky, Max2(Max2(NBitLen(dv.q) - prec, emin + s), 0))
  IN  Scaled(IF E >= 0 THEN [q |-> NMulPow10(D, E), sticky |-> FALSE]
             ELSE NDivPow10(NShl(D, s), 0 - E))

\* strconv.ParseFloat(s, bitSize): err is "none", "syntax" or "range".
\* A value below the smallest denormal becomes zero without an error.
ParseFloat(t, bitSize) ==
  LET prec == IF bitSize = 32 THEN 24 ELSE 53
      emin == IF bitSize = 32 THEN 0 - 149 ELSE 0 - 1074
      emax == IF bitSize = 32 THEN 128 ELSE 1024
      Special(low) ==
        (IF Len(low) >= 1 /\ low[1] \in {"+", "-"} THEN Tail(low) ELSE low)
          \in {<<"i", "n", "f">>, <<"i", "n", "f", "i", "n", "i", "t", "y">>}
      Rounded(sc, f) ==
        IF FExp(f) > emax THEN [err |-> "range", f |-> FInf(sc.neg)]
        ELSE [err |-> "none", f |-> f]
      Sized(sc, dp) ==
        IF ~sc.ok THEN [err |-> "syntax", f |-> FZero]
        ELSE IF sc.D = NZero THEN [err |-> "none", f |-> FNorm(sc.neg, NZero, 0)]
        ELSE IF dp > 310 THEN [err |-> "range", f |-> FInf(sc.neg)]
        ELSE IF dp < 0 - 330 THEN [err |-> "none", f |-> FNorm(sc.neg, NZero, 0)]
        ELSE Rounded(sc, RoundDecimal(sc.neg, sc.D, sc.E, prec, emin, "even"))
      Scanned(sc) == Sized(sc, Len(NToDigits(sc.D)) + sc.E)
      Lowered(low) ==
        IF Special(low) THEN [err |-> "none", f |-> FInf(t[1] = "-")]
        ELSE IF low = <<"n", "a", "n">> THEN [err |-> "none", f |-> FNaN]
        ELSE Scanned(ScanDecimal(t))
  IN  Lowered(LowerText(t))

\* strconv.ParseInt(s, 10, 64)
ParseInt(t) ==
  LET sgn == IF Len(t) >= 1 /\ t[1] \in {"+", "-"} THEN 1 ELSE 0
      neg == sgn = 1 /\ t[1] = "-"
      Ranged(mag, lim) ==
        IF NLt(lim, mag) THEN [err |-> "range", n |-> MkInt(neg, lim)]
        ELSE [err |-> "none", n |-> MkInt(neg, mag)]
      Digits(ds) ==
        IF ~(ds # << >> /\ DigitsEnd(ds, 1) = Len(ds) + 1) THEN [err |-> "syntax", n |-> IntZero]
        ELSE Ranged(NFromDigits(ds), IF neg THEN NPow2(63) ELSE NSub(NPow2(63), <<1>>))
  IN  Digits(SubSeq(t, sgn + 1, Len(t)))

\* strconv.ParseUint(s, 10, 64)
ParseUint(t) ==
  LET Ranged(mag) ==
        IF NLt(MaxUint64, mag) THEN [err |-> "range", n |-> MaxUint64]
        ELSE [err |-> "none", n |-> mag]
  IN  IF ~(t # << >> /\ DigitsEnd(t, 1) = Len(t) + 1) THEN [err |-> "syntax", n |-> NZero]
      ELSE Ranged(NFromDigits(t))

\* big.ParseFloat(s, 10, 64, big.ToZero).  A value of decimal magnitude beyond
\* 10^310 or below 10^-330 is held as a power of two of that size: the callers
\* only ask whether it is an integer that fits 64 bits.
BigParseFloat(t) ==
  LET Sized(sc, dp) ==
        IF ~sc.ok THEN [err |-> "syntax", f |-> FZero]
        ELSE IF sc.D = NZero THEN [err |-> "none", f |-> FNorm(sc.neg, NZero, 0)]
        ELSE IF dp > 310 THEN [err |-> "none", f |-> FNorm(sc.neg, <<1>>, 1100)]
        ELSE IF dp < 0 - 330 THEN [err |-> "none", f |-> FNorm(sc.neg, <<1>>, 0 - 1100)]
        ELSE [err |-> "none", f |-> RoundDecimal(sc.neg, sc.D, sc.E, 64, 0 - 1000000, "zero")]
      Scanned(sc) == Sized(sc, Len(NToDigits(sc.D)) + sc.E)
      Unsigned(body) ==
        IF body \in {<<"i", "n", "f">>, <<"I", "n", "f">>}
        THEN [err |-> "none", f |-> FInf(t[1] = "-")]
        ELSE Scanned(ScanDecimal(t))
  IN  Unsigned(IF Len(t) >= 1 /\ t[1] \in {"+", "-"} THEN Tail(t) ELSE t)

\* (*big.Float).Int64: the truncated value and its accuracy
BigInt64(f) ==
  LET acc == IF f.neg THEN "Above" ELSE "Below"
      Finite(exp) ==
        IF exp <= 0 THEN [n |-> IntZero, acc |-> acc]
        ELSE IF exp <= 63
        THEN [n |-> MkInt(f.neg, FTruncMag(f)), acc |-> (IF FIsInt(f) THEN "Exact" ELSE acc)]
        ELSE IF f.neg
        THEN [n |-> MinInt64, acc |-> (IF exp = 64 /\ f.m = <<1>> THEN "Exact" ELSE acc)]
        ELSE [n |-> MaxInt64, acc |-> "Below"]
  IN  IF f.cls = "inf" THEN [n |-> (IF f.neg THEN MinInt64 ELSE MaxInt64), acc |-> acc]
      ELSE IF FIsZero(f) THEN [n |-> IntZero, acc |-> "Exact"]
      ELSE Finite(FExp(f))

\* ------------------------------------------------------------------------
\* State
\* ------------------------------------------------------------------------
VARIABLES
  build,                  \* the build the program runs as: what it does where Go leaves the result open
  input,                  \* the JSON values the Decoder's reader still holds or has delivered
  pos,                    \* number of values of input consumed by dec.dec
  useNumber,              \* Decoder.useNumber
  disallowUnknownFields,  \* Decoder.disallowUnknownFields
  errorContext,           \* Decoder.errorContext
  tgtType,                \* type of the caller's variable
  tgt,                    \* value of the caller's variable
  ret,                    \* what the last call returned
  call,                   \* the last call: its kind, the value it read, the variable before it
  stack                   \* the calls of decode in progress, outermost first: value and type of each

vars ==
  <<build, input, pos, useNumber, disallowUnknownFields, errorContext, tgtType, tgt, ret, call,
    stack>>

\* ------------------------------------------------------------------------
\* reflect kinds and integer conversions
\* ------------------------------------------------------------------------
IntKinds == {"Int", "Int8", "Int16", "Int32", "Int64"}

UintKinds == {"Uint", "Uint8", "Uint16", "Uint32", "Uint64", "Uintptr"}

FloatKinds == {"Float32", "Float64"}

\* reflect.Type.Bits on a 64-bit platform
KindBits(k) ==
  CASE k \in {"Int8", "Uint8"} -> 8
    [] k \in {"Int16", "Uint16"} -> 16
    [] k \in {"Int32", "Uint32", "Float32"} -> 32
    [] OTHER -> 64

\* reflect.Value.OverflowInt
OverflowInt(k, n) ==
  LET b == KindBits(k)
  IN  IF n.neg THEN NLt(NPow2(b - 1), n.mag) ELSE ~NLt(n.mag, NPow2(b - 1))

\* reflect.Value.OverflowUint
OverflowUint(k, n) == ~NLt(n, NPow2(KindBits(k)))

\* reflect.Value.OverflowFloat: only a float32 can overflow
OverflowFloat(k, f) == k = "Float32" /\ f.cls = "fin" /\ FExp(f) > 128

\* f < math.MinInt64 || f > math.MaxInt64, the bounds converted to float64
\* (MaxInt64 becomes 2^63)
OutsideInt64(f) ==
  LET Beyond(mag, lim) == NLt(lim, mag) \/ (f.neg /\ mag = lim /\ ~FIsInt(f))
  IN  \/ f.cls = "inf"
      \/ f.cls = "fin" /\ Beyond(FTruncMag(f), NPow2(63))

\* f < 0 || f > math.MaxUint64, the bound converted to float64 (2^64)
OutsideUint64(f) ==
  \/ f.cls = "inf"
  \/ f.cls = "fin" /\ f.neg /\ ~FIsZero(f)
  \/ f.cls = "fin" /\ NLt(NPow2(64), FTruncMag(f))

\* the conversion int64(f).  Go leaves the result open when f does not fit:
\* amd64 yields the "integer indefinite" value, arm64 saturates.
FloatToInt64(f) ==
  LET Converted(mag, lim) ==
        IF f.cls = "fin" /\ (IF f.neg THEN NLe(mag, lim) ELSE NLt(mag, lim)) THEN MkInt(f.neg, mag)
        ELSE IF build.arch = "amd64" THEN MinInt64
        ELSE IF f.cls = "nan" THEN IntZero
        ELSE IF f.neg THEN MinInt64 ELSE MaxInt64
  IN  Converted(FTruncMag(f), NPow2(63))

\* the conversion uint64(f), open in the same way
FloatToUint64(f) ==
  LET Converted(mag) ==
        IF f.cls = "fin" /\ NLt(mag, NPow2(64)) /\ (f.neg => mag = NZero) THEN mag
        ELSE IF build.arch = "amd64" THEN NPow2(63)
        ELSE IF f.cls = "nan" \/ f.neg THEN NZero
        ELSE MaxUint64
  IN  Converted(FTruncMag(f))

\* (*big.Float).Uint64.  For a value with a fractional part the library
\* documents the accuracy Below; its code tests MinPrec() <= 64 and so
\* reports Exact: build.uint64Exact says which one the build does.
BigUint64(f) ==
  LET Finite(exp) ==
        IF exp <= 0 THEN [n |-> NZero, acc |-> "Below"]
        ELSE IF exp <= 64
        THEN [n |-> FTruncMag(f),
              acc |-> (IF FIsInt(f) \/ build.uint64Exact THEN "Exact" ELSE "Below")]
        ELSE [n |-> MaxUint64, acc |-> "Below"]
  IN  IF f.cls = "inf" THEN [n |-> (IF f.neg THEN NZero ELSE MaxUint64),
                             acc |-> (IF f.neg THEN "Above" ELSE "Below")]
      ELSE IF FIsZero(f) THEN [n |-> NZero, acc |-> "Exact"]
      ELSE IF f.neg THEN [n |-> NZero, acc |-> "Above"]
      ELSE Finite(FExp(f))

\* parseInt: a number text as an integer of kind k
parseInt(s, k) ==
  LET overflow == [ok |-> FALSE, n |-> IntZero]
      Checked(n) == IF OverflowInt(k, n) THEN overflow ELSE [ok |-> TRUE, n |-> n]
      Exact(bi) == IF bi.acc # "Exact" THEN overflow ELSE [ok |-> TRUE, n |-> bi.n]
      ViaBig(bf) == IF bf.err # "none" THEN overflow ELSE Exact(BigInt64(bf.f))
      ViaFloat(pf) ==
        IF pf.err # "none" THEN overflow
        ELSE IF OutsideInt64(pf.f) THEN overflow
        ELSE Checked(FloatToInt64(pf.f))
      Parsed(pi) ==
        IF pi.err = "none" THEN Checked(pi.n)
        ELSE IF k = "Int64" THEN ViaBig(BigParseFloat(s))
        ELSE ViaFloat(ParseFloat(s, 64))
  IN  Parsed(ParseInt(s))

\* parseUint: a number text as an unsigned integer of kind k
parseUint(s, k) ==
  LET overflow == [ok |-> FALSE, n |-> NZero]
      Checked(n) == IF OverflowUint(k, n) THEN overflow ELSE [ok |-> TRUE, n |-> n]
      Exact(bu) == IF bu.acc # "Exact" THEN overflow ELSE [ok |-> TRUE, n |-> bu.n]
      ViaBig(bf) == IF bf.err # "none" THEN overflow ELSE Exact(BigUint64(bf.f))
      ViaFloat(pf) ==
        IF pf.err # "none" THEN overflow
        ELSE IF OutsideUint64(pf.f) THEN overflow
        ELSE Checked(FloatToUint64(pf.f))
      Parsed(pu) ==
        IF pu.err = "none" THEN Checked(pu.n)
        ELSE IF k = "Uint64" THEN ViaBig(BigParseFloat(s))
        ELSE ViaFloat(ParseFloat(s, 64))
  IN  Parsed(ParseUint(s))

\* ------------------------------------------------------------------------
\* Types.  A type is known by its name; TypeDesc gives its reflect description:
\* kind, Name(), element and key types, array length, declared fields, and
\* whether its pointer type implements Unmarshaler / encoding.TextUnmarshaler.
\* ------------------------------------------------------------------------
Ty(kind, name) ==
  [kind |-> kind, name |-> name, elem |-> "", key |-> "", len |-> 0,
   fields |-> << >>, hookJSON |-> FALSE, hookText |-> FALSE]

SliceOf(e) == [Ty("Slice", "") EXCEPT !.elem = e]

ArrayOf(n, e) == [Ty("Array", "") EXCEPT !.elem = e, !.len = n]

MapOf(k, e) == [Ty("Map", "") EXCEPT !.key = k, !.elem = e]

PtrTo(e) == [Ty("Ptr", "") EXCEPT !.elem = e]

StructOf(name, fields) == [Ty("Struct", name) EXCEPT !.fields = fields]

\* a declared struct field: Go name, type, json tag name ("" when none),
\* `json:"-"`, embedded (anonymous), exported
Fld(name, typ) ==
  [name |-> name, typ |-> typ, tag |-> << >>, ignore |-> FALSE,
   embedded |-> FALSE, exported |-> TRUE]

Tagged(name, typ, tag) == [Fld(name, typ) EXCEPT !.tag = tag]

Ignored(name, typ) == [Fld(name, typ) EXCEPT !.ignore = TRUE]

Embedded(name, typ) == [Fld(name, typ) EXCEPT !.embedded = TRUE]

Unexported(name, typ) == [Fld(name, typ) EXCEPT !.exported = FALSE]

\* the types of decode_test.go the model decodes into, and the basic types
TypeDesc(T) ==
  CASE T = "bool" -> Ty("Bool", "bool")
    [] T = "int" -> Ty("Int", "int")
    [] T = "int8" -> Ty("Int8", "int8")
    [] T = "int16" -> Ty("Int16", "int16")
    [] T = "int32" -> Ty("Int32", "int32")
    [] T = "int64" -> Ty("Int64", "int64")
    [] T = "uint" -> Ty("Uint", "uint")
    [] T = "uint8" -> Ty("Uint8", "uint8")
    [] T = "uint16" -> Ty("Uint16", "uint16")
    [] T = "uint32" -> Ty("Uint32", "uint32")
    [] T = "uint64" -> Ty("Uint64", "uint64")
    [] T = "float32" -> Ty("Float32", "float32")
    [] T = "float64" -> Ty("Float64", "float64")
    [] T = "string" -> Ty("String", "string")
    [] T = "Number" -> Ty("String", "Number")
    [] T = "interface{}" -> Ty("Interface", "")
    [] T = "[]bool" -> SliceOf("bool")
    [] T = "[]int" -> SliceOf("int")
    [] T = "[]int8" -> SliceOf("int8")
    [] T = "[]string" -> SliceOf("string")
    [] T = "[]uint8" -> SliceOf("uint8")
    [] T = "[]interface{}" -> SliceOf("interface{}")
    [] T = "[]phpArray" -> SliceOf("phpArray")
    [] T = "[][]int" -> SliceOf("[]int")
    [] T = "[1]int" -> ArrayOf(1, "int")
    [] T = "[2]int" -> ArrayOf(2, "int")
    [] T = "[3]int" -> ArrayOf(3, "int")
    [] T = "[2]string" -> ArrayOf(2, "string")
    [] T = "map[string]bool" -> MapOf("string", "bool")
    [] T = "map[string]int" -> MapOf("string", "int")
    [] T = "map[string]string" -> MapOf("string", "string")
    [] T = "map[string]interface{}" -> MapOf("string", "interface{}")
    [] T = "map[int]string" -> MapOf("int", "string")
    [] T = "map[int8]string" -> MapOf("int8", "string")
    [] T = "map[uint8]string" -> MapOf("uint8", "string")
    [] T = "map[int]T" -> MapOf("int", "T")
    [] T = "map[Point]string" -> MapOf("Point", "string")
    [] T = "map[float64]string" -> MapOf("float64", "string")
    [] T = "map[int64]string" -> MapOf("int64", "string")
    [] T = "map[uint64]string" -> MapOf("uint64", "string")
    [] T = "map[unmarshaler]string" -> MapOf("unmarshaler", "string")
    [] T = "map[unmarshalerText]bool" -> MapOf("unmarshalerText", "bool")
    [] T = "map[u8marshal]int" -> MapOf("u8marshal", "int")
    [] T = "unmarshaler" ->
         [StructOf("unmarshaler", <<Fld(<<"T">>, "bool")>>) EXCEPT !.hookJSON = TRUE]
    [] T = "unmarshalerText" ->
         [StructOf("unmarshalerText", <<Fld(<<"A">>, "string"), Fld(<<"B">>, "string")>>)
            EXCEPT !.hookText = TRUE]
    [] T = "u8marshal" -> [Ty("Uint8", "u8marshal") EXCEPT !.hookText = TRUE]
    [] T = "RawMessage" -> [SliceOf("uint8") EXCEPT !.name = "RawMessage", !.hookJSON = TRUE]
    [] T = "*unmarshalerText" -> PtrTo("unmarshalerText")
    [] T = "*int" -> PtrTo("int")
    [] T = "**int" -> PtrTo("*int")
    [] T = "*VOuter" -> PtrTo("VOuter")
    [] T = "*S6" -> PtrTo("S6")
    [] T = "T" -> StructOf("T", <<Fld(<<"X">>, "string"), Fld(<<"Y">>, "int"),
                                  Ignored(<<"Z">>, "int")>>)
    [] T = "U" -> StructOf("U", <<Tagged(<<"A", "l", "p", "h", "a", "b", "e", "t">>, "string",
                                         <<"a", "l", "p", "h", "a">>)>>)
    [] T = "tx" -> StructOf("tx", <<Unexported(<<"x">>, "int")>>)
    [] T = "V" -> StructOf("V", <<Fld(<<"F", "1">>, "interface{}"), Fld(<<"F", "2">>, "int32"),
                                  Fld(<<"F", "3">>, "Number"), Fld(<<"F", "4">>, "*VOuter")>>)
    [] T = "VOuter" -> StructOf("VOuter", <<Fld(<<"V">>, "V")>>)
    [] T = "Point" -> StructOf("Point", <<Fld(<<"Z">>, "int")>>)
    [] T = "phpArray" -> StructOf("phpArray", <<Tagged(<<"F", "i", "r", "s", "t">>, "string", <<"0">>)>>)
    [] T = "Rec" -> SliceOf("Rec")
    [] T = "RecMap" -> MapOf("string", "RecMap")
    [] T = "*RecStruct" -> PtrTo("RecStruct")
    [] T = "RecStruct" -> StructOf("RecStruct", <<Tagged(<<"N", "e", "x", "t">>, "*RecStruct", <<"0">>)>>)
    [] T = "Small" -> StructOf("Small", <<Fld(<<"T", "a", "g">>, "string")>>)
    [] T = "map[int]Small" -> MapOf("int", "Small")
    [] T = "SmallByInt" -> StructOf("SmallByInt", <<Fld(<<"M">>, "map[int]Small")>>)
    [] T = "Ambig" -> StructOf("Ambig", <<Tagged(<<"F", "i", "r", "s", "t">>, "int", <<"H", "E", "L", "L", "O">>),
                                          Tagged(<<"S", "e", "c", "o", "n", "d">>, "int", <<"H", "e", "l", "l", "o">>)>>)
    [] T = "S5" -> StructOf("S5", <<Embedded(<<"S", "6">>, "S6"), Embedded(<<"S", "7">>, "S7"),
                                    Embedded(<<"S", "8">>, "S8")>>)
    [] T = "S6" -> StructOf("S6", <<Fld(<<"X">>, "int")>>)
    [] T = "S7" -> StructOf("S7", <<Fld(<<"X">>, "int")>>)
    [] T = "S8" -> StructOf("S8", <<Embedded(<<"S", "9">>, "S9")>>)
    [] T = "S9" -> StructOf("S9", <<Fld(<<"X">>, "int"), Fld(<<"Y">>, "int")>>)
    [] T = "S10" -> StructOf("S10", <<Embedded(<<"S", "1", "1">>, "S11"), Embedded(<<"S", "1", "2">>, "S12"),
                                      Embedded(<<"S", "1", "3">>, "S13")>>)
    [] T = "S11" -> StructOf("S11", <<Embedded(<<"S", "6">>, "S6")>>)
    [] T = "S12" -> StructOf("S12", <<Embedded(<<"S", "6">>, "S6")>>)
    [] T = "S13" -> StructOf("S13", <<Embedded(<<"S", "8">>, "S8")>>)

Kind(T) == TypeDesc(T).kind

\* ------------------------------------------------------------------------
\* Go values
\* ------------------------------------------------------------------------
GBool(b) == [g |-> "bool", b |-> b]

GInt(n) == [g |-> "int", n |-> n]

GUint(n) == [g |-> "uint", u |-> n]

GFloat(f) == [g |-> "float", f |-> f]

GString(s) == [g |-> "string", s |-> s]

\* a json.Number held in an interface
GNumber(s) == [g |-> "Number", lit |-> s]

\* the nil interface
GNil == [g |-> "nil"]

\* a slice: its backing array arr (the capacity is its length) and the length len
GSlice(isnil, len, arr) == [g |-> "slice", isnil |-> isnil, len |-> len, arr |-> arr]

GNilSlice == GSlice(TRUE, 0, << >>)

GArray(arr) == [g |-> "array", elems |-> arr]

\* a map: the set of its entries [k, v]
GMap(isnil, m) == [g |-> "map", isnil |-> isnil, m |-> m]

GNilMap == GMap(TRUE, {})

\* a struct: the values of its declared fields
GStruct(fs) == [g |-> "struct", fs |-> fs]

\* a pointer: nil, or to the value p
GPtr(isnil, p) == [g |-> "ptr", isnil |-> isnil, p |-> p]

\* an interface holding a pointer of type typ
GHeld(typ, ptr) == [g |-> "held", typ |-> typ, ptr |-> ptr]

\* reflect.Zero / reflect.New(T).Elem()
RECURSIVE Zero(_)
Zero(T) ==
  LET Of(d) ==
        CASE d.kind = "Bool" -> GBool(FALSE)
          [] d.kind \in IntKinds -> GInt(IntZero)
          [] d.kind \in UintKinds -> GUint(NZero)
          [] d.kind \in FloatKinds -> GFloat(FZero)
          [] d.kind = "String" -> GString(<< >>)
          [] d.kind = "Interface" -> GNil
          [] d.kind = "Slice" -> GNilSlice
          [] d.kind = "Array" -> GArray([i \in 1..d.len |-> Zero(d.elem)])
          [] d.kind = "Map" -> GNilMap
          [] d.kind = "Struct" -> GStruct([i \in 1..Len(d.fields) |-> Zero(d.fields[i].typ)])
          [] d.kind = "Ptr" -> GPtr(TRUE, GNil)
  IN  Of(TypeDesc(T))

\* reflect.MakeSlice(T, n, n)
MakeSlice(T, n) ==
  LET Filled(zero) == GSlice(FALSE, n, [i \in 1..n |-> zero])
  IN  Filled(Zero(TypeDesc(T).elem))

\* ------------------------------------------------------------------------
\* JSON values, as dec.dec delivers them with UseNumber: nil, bool, Number,
\* string, []interface{} and map[string]interface{}.  An object is the
\* sequence of its members in the order in which this run ranges over the map.
\* ------------------------------------------------------------------------
JNull == [k |-> "null"]

JBool(b) == [k |-> "bool", b |-> b]

JNum(s) == [k |-> "number", s |-> s]

JStr(s) == [k |-> "string", s |-> s]

JArr(a) == [k |-> "array", a |-> a]

JObj(o) == [k |-> "object", o |-> o]

Mem(key, val) == [key |-> key, val |-> val]

\* the same value held in an interface (reflect.ValueOf(v))
RECURSIVE Raw(_)
Raw(v) ==
  CASE v.k = "null" -> GNil
    [] v.k = "bool" -> GBool(v.b)
    [] v.k = "number" -> GNumber(v.s)
    [] v.k = "string" -> GString(v.s)
    [] v.k = "array" -> GSlice(FALSE, Len(v.a), [i \in 1..Len(v.a) |-> Raw(v.a[i])])
    [] v.k = "object" -> GMap(FALSE, {[k |-> GString(v.o[i].key), v |-> Raw(v.o[i].val)] : i \in 1..Len(v.o)})

\* ------------------------------------------------------------------------
\* Field Resolver (cachedTypeFields).  fields.go lies outside the sources
\* examined; the resolver follows the specification, section 4.1.
\* ------------------------------------------------------------------------
\* the struct type a field's type is or points to
StructUnder(T) ==
  LET Of(d) == IF d.kind = "Ptr" THEN d.elem ELSE T
  IN  Of(TypeDesc(T))

\* what a declared field is to the resolver
FieldRole(f) ==
  IF f.ignore THEN "drop"
  ELSE IF f.embedded /\ f.tag = << >> /\ Kind(StructUnder(f.typ)) = "Struct" THEN "expand"
  ELSE IF ~f.exported THEN "drop"
  ELSE "field"

\* every field reachable through embedding, with its access path
RECURSIVE Candidates(_, _, _)
Candidates(T, prefix, i) ==
  LET Here(f, role) ==
        CASE role = "drop" -> << >>
          [] role = "expand" -> Candidates(StructUnder(f.typ), prefix \o <<i>>, 1)
          [] role = "field" ->
               <<[name |-> (IF f.tag # << >> THEN f.tag ELSE f.name),
                  index |-> prefix \o <<i>>,
                  typ |-> f.typ,
                  tagged |-> (f.tag # << >>)]>>
      Field(f) == Here(f, FieldRole(f))
      From(fs) ==
        IF i > Len(fs) THEN << >> ELSE Field(fs[i]) \o Candidates(T, prefix, i + 1)
  IN  From(TypeDesc(T).fields)

RECURSIVE IndexLess(_, _)
IndexLess(a, b) ==
  IF a = << >> THEN b # << >>
  ELSE IF b = << >> THEN FALSE
  ELSE IF Head(a) # Head(b) THEN Head(a) < Head(b)
  ELSE IndexLess(Tail(a), Tail(b))

\* discovery order of a level-by-level traversal
Discovered(a, b) ==
  \/ Len(a.index) < Len(b.index)
  \/ Len(a.index) = Len(b.index) /\ IndexLess(a.index, b.index)

\* the candidate that owns its name: alone at the shallowest depth of that
\* name, or the only tagged one there
Dominant(cs, c) ==
  LET same  == {j \in 1..Len(cs) : cs[j].name = c.name}
      depth == CHOOSE n \in {Len(cs[j].index) : j \in same} :
                 \A j \in same : n <= Len(cs[j].index)
      top   == {j \in same : Len(cs[j].index) = depth}
      ttop  == {j \in top : cs[j].tagged}
  IN  /\ Len(c.index) = depth
      /\ \/ Cardinality(top) = 1
         \/ c.tagged /\ Cardinality(ttop) = 1

typeFields(T) ==
  LET Resolved(cs) == SortSeq(SelectSeq(cs, LAMBDA c : Dominant(cs, c)), Discovered)
  IN  Resolved(Candidates(T, << >>, 1))

cachedTypeFields(T) == typeFields(T)

\* ff.equalFold(ff.nameBytes, key)
equalFold(a, b) == LowerText(a) = LowerText(b)

NoField == [name |-> << >>, index |-> << >>, typ |-> "", tagged |-> FALSE]

\* FieldForKey that takes the first match under case folding, exact or not
FieldForKeyFirstFold(T, key) ==
  LET Pick(fields, fold) ==
        IF fold # {} THEN fields[CHOOSE i \in fold : \A j \in fold : i <= j]
        ELSE NoField
      Among(fields) ==
        Pick(fields, {i \in 1..Len(fields) : equalFold(fields[i].name, key)})
  IN  Among(cachedTypeFields(T))

\* the field an object key selects: the first exact match, else the first
\* match under case folding (decode.go, Object -> Struct)
FieldForKey(T, key) ==
  LET First(S) == CHOOSE i \in S : \A j \in S : i <= j
      Pick(fields, exact, fold) ==
        IF exact # {} THEN fields[First(exact)]
        ELSE IF fold # {} THEN fields[First(fold)]
        ELSE NoField
      Among(fields) ==
        Pick(fields,
             {i \in 1..Len(fields) : fields[i].name = key},
             {i \in 1..Len(fields) : equalFold(fields[i].name, key)})
  IN  Among(cachedTypeFields(T))

\* the field an array index selects: exact matches only (decode.go, Array -> Struct)
FieldForIndex(T, key) ==
  LET Pick(fields, exact) ==
        IF exact # {} THEN fields[CHOOSE i \in exact : \A j \in exact : i <= j]
        ELSE NoField
      Among(fields) == Pick(fields, {i \in 1..Len(fields) : fields[i].name = key})
  IN  Among(cachedTypeFields(T))

\* ------------------------------------------------------------------------
\* Errors and results
\* ------------------------------------------------------------------------
NoErr == [e |-> "nil"]

\* &UnmarshalTypeError{Value: value, Type: typ}
UnmarshalTypeError(value, typ) ==
  [e |-> "UnmarshalTypeError", Value |-> value, Type |-> typ, Struct |-> "", Field |-> << >>]

\* fmt.Errorf("json: unknown field %q", key)
UnknownField(key) == [e |-> "unknown field", key |-> key]

\* &InvalidUnmarshalError{Type: reflect.TypeOf(v)}
InvalidUnmarshalError(typ) == [e |-> "InvalidUnmarshalError", Type |-> typ]

\* base64.CorruptInputError
CorruptInputError == [e |-> "CorruptInputError"]

\* a run-time panic: the call never returns
Panic(msg) == [e |-> "panic", msg |-> msg]

\* the empty dec.errorContext
NoContext == [Struct |-> "", Field |-> << >>]

withErrorContext(err, ec) ==
  IF (ec.Struct # "" \/ ec.Field # << >>) /\ err.e = "UnmarshalTypeError"
  THEN [err EXCEPT !.Struct = ec.Struct, !.Field = ec.Field]
  ELSE err

\* what decode leaves behind: the value of out, the error, dec.errorContext
Result(v, err, ec) == [v |-> v, err |-> err, ec |-> ec]

\* strconv.Itoa
Itoa(i) == IFormat(Small(i))

\* int(i) of a parsed key; the model's keys stay within one limb
ToSmall(n) ==
  LET m == IF n.mag = NZero THEN 0 ELSE n.mag[1]
  IN  IF n.neg THEN 0 - m ELSE m

\* out.SetMapIndex(kv, subv)
SetMapIndex(m, kv, subv) == {x \in m : x.k # kv} \cup {[k |-> kv, v |-> subv]}

\* ------------------------------------------------------------------------
\* base64.StdEncoding.DecodeString
\* ------------------------------------------------------------------------
Base64Alphabet ==
  Uppers \o Lowers \o <<"0", "1", "2", "3", "4", "5", "6", "7", "8", "9", "+", "/">>

Base64Val(c) == (CHOOSE i \in 1..Len(Base64Alphabet) : Base64Alphabet[i] = c) - 1

IsBase64Char(c) == \E i \in 1..Len(Base64Alphabet) : Base64Alphabet[i] = c

\* the bytes of one group of four characters; last tells whether padding may occur
Base64Quantum(q, last) ==
  LET pad == IF q[4] # "=" THEN 0 ELSE IF q[3] # "=" THEN 1 ELSE 2
      Bytes(a, b, c, d) ==
        SubSeq(<<a * 4 + b \div 16, (b % 16) * 16 + c \div 4, (c % 4) * 64 + d>>, 1, 3 - pad)
      Checked(ok) ==
        [ok |-> ok,
         bytes |-> IF ok
                   THEN Bytes(Base64Val(q[1]), Base64Val(q[2]),
                              IF pad < 2 THEN Base64Val(q[3]) ELSE 0,
                              IF pad < 1 THEN Base64Val(q[4]) ELSE 0)
                   ELSE << >>]
  IN  Checked((\A i \in 1..(4 - pad) : IsBase64Char(q[i])) /\ (pad > 0 => last))

RECURSIVE Base64Groups(_, _)
Base64Groups(t, i) ==
  LET Joined(q, rest) == [ok |-> q.ok /\ rest.ok, bytes |-> q.bytes \o rest.bytes]
  IN  IF i > Len(t) THEN [ok |-> TRUE, bytes |-> << >>]
      ELSE Joined(Base64Quantum(SubSeq(t, i, i + 3), i + 3 = Len(t)), Base64Groups(t, i + 4))

\* the decoded bytes as a []byte of capacity DecodedLen(len(s))
Base64Decode(t) ==
  LET Slice(g, cap) ==
        [ok |-> g.ok,
         v  |-> GSlice(FALSE, Len(g.bytes),
                       [i \in 1..cap |-> IF i <= Len(g.bytes) THEN GUint(Small(g.bytes[i]).mag)
                                         ELSE GUint(NZero)])]
  IN  Slice(IF Len(t) % 4 = 0 THEN Base64Groups(t, 1) ELSE [ok |-> FALSE, bytes |-> << >>],
            (Len(t) \div 4) * 3)

\* ------------------------------------------------------------------------
\* convertNumber, convertNumber2Float64
\* ------------------------------------------------------------------------
\* convertNumber that never looks at dec.useNumber
convertNumberFloat(s) ==
  LET Parsed(pf) ==
        IF pf.err # "none"
        THEN [v |-> GNil, err |-> UnmarshalTypeError(<<"number ">> \o s, "float64")]
        ELSE [v |-> GFloat(pf.f), err |-> NoErr]
  IN  Parsed(ParseFloat(s, 64))

\* the number literal s as a float64, or as a Number under UseNumber
convertNumber(s) ==
  LET Parsed(pf) ==
        IF pf.err # "none"
        THEN [v |-> GNil, err |-> UnmarshalTypeError(<<"number ">> \o s, "float64")]
        ELSE [v |-> GFloat(pf.f), err |-> NoErr]
  IN  IF useNumber THEN [v |-> GNumber(s), err |-> NoErr]
      ELSE Parsed(ParseFloat(s, 64))

RECURSIVE convertNumber2Float64(_)
RECURSIVE convertElems(_, _, _)
RECURSIVE convertMembers(_, _, _)

\* for i, vv := range v { v[i], err = dec.convertNumber2Float64(vv) }
convertElems(a, i, acc) ==
  LET Converted(r) ==
        IF r.err # NoErr THEN [v |-> GNil, err |-> r.err]
        ELSE convertElems(a, i + 1, Append(acc, r.v))
  IN  IF i > Len(a) THEN [v |-> GSlice(FALSE, Len(a), acc), err |-> NoErr]
      ELSE Converted(convertNumber2Float64(a[i]))

\* for key, vv := range v { v[key], err = dec.convertNumber2Float64(vv) }
convertMembers(o, i, acc) ==
  LET Converted(r) ==
        IF r.err # NoErr THEN [v |-> GNil, err |-> r.err]
        ELSE convertMembers(o, i + 1, SetMapIndex(acc, GString(o[i].key), r.v))
  IN  IF i > Len(o) THEN [v |-> GMap(FALSE, acc), err |-> NoErr]
      ELSE Converted(convertNumber2Float64(o[i].val))

convertNumber2Float64(v) ==
  LET Parsed(pf) ==
        IF pf.err # "none"
        THEN [v |-> GNil, err |-> UnmarshalTypeError(<<"number ">> \o v.s, "float64")]
        ELSE [v |-> GFloat(pf.f), err |-> NoErr]
  IN  CASE v.k = "number" -> Parsed(ParseFloat(v.s, 64))
        [] v.k = "array" -> convertElems(v.a, 1, << >>)
        [] v.k = "object" -> convertMembers(v.o, 1, {})
        [] OTHER -> [v |-> Raw(v), err |-> NoErr]

\* ------------------------------------------------------------------------
\* json.Marshal of a value delivered by dec.dec, and the methods of the types
\* that unmarshal themselves
\* ------------------------------------------------------------------------
HexDigits == <<"0", "1", "2", "3", "4", "5", "6", "7", "8", "9", "a", "b", "c", "d", "e", "f">>

\* encodeState.string with escapeHTML
RECURSIVE Quoted(_)
Quoted(t) ==
  LET Escaped(c) ==
        IF c \in {"\"", "\\"} THEN <<"\\", c>>
        ELSE IF c \in {"<", ">", "&"}
        THEN <<"\\", "u", "0", "0", HexDigits[(CharCode(c) \div 16) + 1], HexDigits[(CharCode(c) % 16) + 1]>>
        ELSE <<c>>
  IN  IF t = << >> THEN << >> ELSE Escaped(Head(t)) \o Quoted(Tail(t))

RECURSIVE Marshal(_)
RECURSIVE MarshalElems(_, _)
RECURSIVE MarshalMembers(_, _)

MarshalElems(a, i) ==
  IF i > Len(a) THEN << >>
  ELSE (IF i > 1 THEN <<",">> ELSE << >>) \o Marshal(a[i]) \o MarshalElems(a, i + 1)

MarshalMembers(o, i) ==
  IF i > Len(o) THEN << >>
  ELSE (IF i > 1 THEN <<",">> ELSE << >>)
         \o <<"\"">> \o Quoted(o[i].key) \o <<"\"", ":">> \o Marshal(o[i].val)
         \o MarshalMembers(o, i + 1)

\* json.Marshal(in): compact, the members of an object sorted by key
Marshal(v) ==
  CASE v.k = "null" -> <<"n", "u", "l", "l">>
    [] v.k = "bool" -> IF v.b THEN <<"t", "r", "u", "e">> ELSE <<"f", "a", "l", "s", "e">>
    [] v.k = "number" -> v.s
    [] v.k = "string" -> <<"\"">> \o Quoted(v.s) \o <<"\"">>
    [] v.k = "array" -> <<"[">> \o MarshalElems(v.a, 1) \o <<"]">>
    [] v.k = "object" ->
         <<"{">> \o MarshalMembers(SortSeq(v.o, LAMBDA a, b : TextLess(a.key, b.key)), 1) \o <<"}">>

\* a text as a []byte
ByteSlice(t) == [i \in 1..Len(t) |-> GUint(Small(CharCode(t[i])).mag)]

MissingSeparator == [e |-> "missing separator"]

errMissingU8Prefix == [e |-> "missing 'u' prefix"]

\* *strconv.NumError
NumError == [e |-> "NumError"]

\* u.UnmarshalJSON(data) of the types whose pointer is an Unmarshaler
UnmarshalJSON(T, data, out) ==
  CASE T = "unmarshaler" -> [v |-> GStruct(<<GBool(TRUE)>>), err |-> NoErr]
    [] T = "RawMessage" ->
         \* *m = append((*m)[0:0], data...)
         [v |-> GSlice(FALSE, Len(data),
                       IF Len(data) <= Len(out.arr)
                       THEN [i \in 1..Len(out.arr) |->
                               IF i <= Len(data) THEN ByteSlice(data)[i] ELSE out.arr[i]]
                       ELSE ByteSlice(data)),
          err |-> NoErr]

\* ut.UnmarshalText(b) of the types whose pointer is a TextUnmarshaler
UnmarshalText(T, b, out) ==
  LET Split(at) ==
        IF at = 0 THEN [v |-> out, err |-> MissingSeparator]
        ELSE [v |-> GStruct(<<GString(SubSeq(b, 1, at - 1)), GString(SubSeq(b, at + 1, Len(b)))>>),
              err |-> NoErr]
      \* u8marshal(n): the low eight bits
      Low(n, r) == IF n.neg /\ r # 0 THEN 256 - r ELSE r
      Atoi(pi) ==
        IF pi.err # "none" THEN [v |-> out, err |-> NumError]
        ELSE [v |-> GUint(Small(Low(pi.n, NDivRem(pi.n.mag, 256).r)).mag), err |-> NoErr]
  IN  CASE T = "unmarshalerText" -> Split(IndexByte(b, ":"))
        [] T = "u8marshal" ->
             IF Len(b) = 0 \/ b[1] # "u" THEN [v |-> out, err |-> errMissingU8Prefix]
             ELSE Atoi(ParseInt(Tail(b)))

\* ------------------------------------------------------------------------
\* decode(in, out): in is the JSON value, T and out the type and the current
\* value of the destination, ec the error context on entry.
\* ------------------------------------------------------------------------
RECURSIVE decode(_, _, _, _)
RECURSIVE decodeIndex(_, _, _, _, _, _)
RECURSIVE decodeArrayMap(_, _, _, _, _)
RECURSIVE decodeArrayStruct(_, _, _, _, _)
RECURSIVE decodeObjectMap(_, _, _, _, _)
RECURSIVE decodeObjectStruct(_, _, _, _, _)
RECURSIVE decodeObjectSlice(_, _, _, _, _)
RECURSIVE decodeObjectArray(_, _, _, _, _)
RECURSIVE decodeField(_, _, _, _, _)

\* decodePtr that walks down to the value for null as for any other value
decodePtrThrough(in, T, out, ec) ==
  LET Pointing(r) == Result(GPtr(FALSE, r.v), r.err, r.ec)
      Into(elem) == Pointing(decode(in, elem, IF out.isnil THEN Zero(elem) ELSE out.p, ec))
  IN  Into(TypeDesc(T).elem)

\* indirect on a pointer destination: with null it stops at the last pointer,
\* which `case nil` then sets to nil; otherwise it allocates and descends
decodePtr(in, T, out, ec) ==
  LET Pointing(r) == Result(GPtr(FALSE, r.v), r.err, r.ec)
      Into(elem) ==
        IF in.k = "null" /\ (out.isnil \/ Kind(elem) # "Ptr")
        THEN Result(Zero(T), NoErr, ec)
        ELSE Pointing(decode(in, elem, IF out.isnil THEN Zero(elem) ELSE out.p, ec))
  IN  Into(TypeDesc(T).elem)

\* decodeNil with null coerced to the falsy literal of a Bool
decodeNilFalsy(T, out, ec) ==
  IF Kind(T) \in {"Interface", "Ptr", "Map", "Slice"}
  THEN Result(Zero(T), NoErr, ec)
  ELSE IF Kind(T) = "Bool" THEN Result(GBool(FALSE), NoErr, ec)
  ELSE Result(out, NoErr, ec)

\* case nil
decodeNil(T, out, ec) ==
  IF Kind(T) \in {"Interface", "Ptr", "Map", "Slice"}
  THEN Result(Zero(T), NoErr, ec)
  ELSE Result(out, NoErr, ec)

\* decodeScalarSlice that always allocates a new slice
decodeScalarSliceFresh(in, T, out, ec) ==
  LET Stored(s, r) == Result(GSlice(FALSE, 1, [s.arr EXCEPT ![1] = r.v]), r.err, r.ec)
      Into(s) == Stored(s, decode(in, TypeDesc(T).elem, s.arr[1], ec))
  IN  Into(MakeSlice(T, 1))

\* a scalar into a slice: a single element with index zero
decodeScalarSlice(in, T, out, ec) ==
  LET Stored(s, r) == Result(GSlice(FALSE, 1, [s.arr EXCEPT ![1] = r.v]), r.err, r.ec)
      Into(s) == Stored(s, decode(in, TypeDesc(T).elem, s.arr[1], ec))
  IN  Into(IF Len(out.arr) = 0 THEN MakeSlice(T, 1) ELSE out)

\* a scalar into a map or a struct: dec.decode(map[string]interface{}{"0": v}, out)
decodeScalarObject(in, T, out, ec) == decode(JObj(<<Mem(<<"0">>, in)>>), T, out, ec)

\* case bool
decodeBool(in, T, out, ec) ==
  LET Into(k) ==
        CASE k = "Bool" -> Result(GBool(in.b), NoErr, ec)
          [] k = "Interface" -> Result(GBool(in.b), NoErr, ec)
          [] k = "String" -> Result(GString(IF in.b THEN <<"1">> ELSE << >>), NoErr, ec)
          [] k \in IntKinds -> Result(GInt(IF in.b THEN IntOne ELSE IntZero), NoErr, ec)
          [] k \in UintKinds -> Result(GUint(IF in.b THEN <<1>> ELSE NZero), NoErr, ec)
          [] k \in FloatKinds -> Result(GFloat(IF in.b THEN FOne ELSE FZero), NoErr, ec)
          [] k = "Slice" -> decodeScalarSlice(in, T, out, ec)
          [] k \in {"Map", "Struct"} -> decodeScalarObject(in, T, out, ec)
          [] OTHER -> Result(out, withErrorContext(UnmarshalTypeError(<<"bool">>, T), ec), ec)
  IN  Into(Kind(T))

\* case Number
decodeNumber(in, T, out, ec) ==
  LET bad == Result(out, withErrorContext(UnmarshalTypeError(<<"number ">> \o in.s, T), ec), ec)
      Converted(cn) == IF cn.err # NoErr THEN Result(out, cn.err, ec) ELSE Result(cn.v, NoErr, ec)
      Signed(pi) == IF ~pi.ok THEN bad ELSE Result(GInt(pi.n), NoErr, ec)
      Unsigned(pu) == IF ~pu.ok THEN bad ELSE Result(GUint(pu.n), NoErr, ec)
      Floating(k, pf) ==
        IF pf.err # "none" \/ OverflowFloat(k, pf.f) THEN bad ELSE Result(GFloat(pf.f), NoErr, ec)
      Truth(pf) == Result(GBool(~(pf.err = "none" /\ FIsZero(pf.f))), NoErr, ec)
      Into(k) ==
        CASE k = "String" -> Result(GString(in.s), NoErr, ec)
          [] k = "Interface" -> Converted(convertNumber(in.s))
          [] k \in IntKinds -> Signed(parseInt(in.s, k))
          [] k \in UintKinds -> Unsigned(parseUint(in.s, k))
          [] k \in FloatKinds -> Floating(k, ParseFloat(in.s, KindBits(k)))
          [] k = "Bool" -> Truth(ParseFloat(in.s, 64))
          [] k = "Slice" -> decodeScalarSlice(in, T, out, ec)
          [] k \in {"Map", "Struct"} -> decodeScalarObject(in, T, out, ec)
          [] OTHER -> Result(out, withErrorContext(UnmarshalTypeError(<<"number">>, T), ec), ec)
  IN  Into(Kind(T))

\* case string
decodeString(in, T, out, ec) ==
  LET bad == Result(out, withErrorContext(UnmarshalTypeError(<<"string">>, T), ec), ec)
      Signed(pi) == IF ~pi.ok THEN bad ELSE Result(GInt(pi.n), NoErr, ec)
      Unsigned(pu) == IF ~pu.ok THEN bad ELSE Result(GUint(pu.n), NoErr, ec)
      Floating(k, pf) ==
        IF pf.err # "none" \/ OverflowFloat(k, pf.f) THEN bad ELSE Result(GFloat(pf.f), NoErr, ec)
      Bytes(b64) == IF ~b64.ok THEN Result(out, CorruptInputError, ec) ELSE Result(b64.v, NoErr, ec)
      Into(k) ==
        CASE k = "String" -> Result(GString(in.s), NoErr, ec)
          [] k = "Interface" -> Result(GString(in.s), NoErr, ec)
          [] k \in IntKinds ->
               IF in.s = << >> THEN Result(GInt(IntZero), NoErr, ec) ELSE Signed(parseInt(in.s, k))
          [] k \in UintKinds ->
               IF in.s = << >> THEN Result(GUint(NZero), NoErr, ec) ELSE Unsigned(parseUint(in.s, k))
          [] k \in FloatKinds ->
               IF in.s = << >> THEN Result(GFloat(FZero), NoErr, ec)
               ELSE Floating(k, ParseFloat(in.s, KindBits(k)))
          [] k = "Bool" -> Result(GBool(~(in.s = << >> \/ in.s = <<"0">>)), NoErr, ec)
          [] k = "Slice" ->
               IF Kind(TypeDesc(T).elem) = "Uint8" THEN Bytes(Base64Decode(in.s))
               ELSE decodeScalarSlice(in, T, out, ec)
          [] k \in {"Map", "Struct"} -> decodeScalarObject(in, T, out, ec)
          [] OTHER -> bad
  IN  Into(Kind(T))

\* for i := from; i <= to; i++ { dec.decode(v[i], out.Index(i)) }, stopping at
\* the first error (positions count from 1)
decodeIndex(a, ET, arr, i, to, ec) ==
  LET Stored(r) ==
        IF r.err # NoErr THEN Result([arr EXCEPT ![i] = r.v], r.err, r.ec)
        ELSE decodeIndex(a, ET, [arr EXCEPT ![i] = r.v], i + 1, to, r.ec)
  IN  IF i > to THEN Result(arr, NoErr, ec)
      ELSE Stored(decode(a[i], ET, arr[i], ec))

\* KeyKindOK with the check of the key kind left out
KeyKindAny(kt) == Kind(kt) # "Invalid"

\* Map key must either have string kind, have an integer kind, or be an
\* encoding.TextUnmarshaler
KeyKindOK(kt) ==
  \/ Kind(kt) \in {"String"} \cup IntKinds \cup UintKinds
  \/ TypeDesc(kt).hookText

\* Array -> Map: the elements in order, each under its index as the key
decodeArrayMap(a, T, m, i, ec) ==
  LET Hooked(r, kr) ==
        IF kr.err # NoErr THEN Result(GMap(FALSE, m), kr.err, kr.ec)
        ELSE decodeArrayMap(a, T, SetMapIndex(m, kr.v, r.v), i + 1, kr.ec)
      Keyed(d, kk, r, n) ==
        IF r.err # NoErr THEN Result(GMap(FALSE, m), r.err, r.ec)
        ELSE IF kk # "String" /\ TypeDesc(d.key).hookText
        THEN Hooked(r, decode(JStr(Itoa(i - 1)), d.key, Zero(d.key), r.ec))
        ELSE IF kk \notin {"String"} \cup IntKinds \cup UintKinds
        THEN Result(GMap(FALSE, m), Panic("json: Unexpected key type"), r.ec)
        ELSE IF \/ kk \in IntKinds /\ OverflowInt(kk, n)
                \/ kk \in UintKinds /\ OverflowUint(kk, n.mag)
        THEN Result(GMap(FALSE, m),
                    withErrorContext(UnmarshalTypeError(<<"number">>, d.key), r.ec), r.ec)
        ELSE decodeArrayMap(a, T,
                            SetMapIndex(m,
                                        CASE kk = "String" -> GString(Itoa(i - 1))
                                          [] kk \in IntKinds -> GInt(n)
                                          [] kk \in UintKinds -> GUint(n.mag),
                                        r.v),
                            i + 1, r.ec)
      Elem(d) == Keyed(d, Kind(d.key), decode(a[i], d.elem, Zero(d.elem), ec), Small(i - 1))
  IN  IF i > Len(a) THEN Result(GMap(FALSE, m), NoErr, ec)
      ELSE Elem(TypeDesc(T))

\* decodeField that follows only the first step of f.index
decodeFieldShallow(in, T, out, index, ec) ==
  LET Pointing(r) == Result(GPtr(FALSE, r.v), r.err, r.ec)
      Holding(i, r) == Result(GStruct([out.fs EXCEPT ![i] = r.v]), r.err, r.ec)
      Field(i, ft) == Holding(i, decode(in, ft, out.fs[i], ec))
      Into(d) ==
        IF d.kind = "Ptr"
        THEN Pointing(decodeField(in, d.elem, IF out.isnil THEN Zero(d.elem) ELSE out.p, index, ec))
        ELSE Field(Head(index), d.fields[Head(index)].typ)
  IN  Into(TypeDesc(T))

\* the walk along f.index, allocating nil pointers, then the decode into the field
decodeField(in, T, out, index, ec) ==
  LET Pointing(r) == Result(GPtr(FALSE, r.v), r.err, r.ec)
      Holding(i, r) == Result(GStruct([out.fs EXCEPT ![i] = r.v]), r.err, r.ec)
      Field(i, ft) ==
        Holding(i, IF Len(index) = 1 THEN decode(in, ft, out.fs[i], ec)
                   ELSE decodeField(in, ft, out.fs[i], Tail(index), ec))
      Into(d) ==
        IF d.kind = "Ptr"
        THEN Pointing(decodeField(in, d.elem, IF out.isnil THEN Zero(d.elem) ELSE out.p, index, ec))
        ELSE Field(Head(index), d.fields[Head(index)].typ)
  IN  Into(TypeDesc(T))

\* Array -> Struct: the elements in order, each under its index as the key
decodeArrayStruct(a, T, out, i, ec) ==
  LET Decoded(r) ==
        IF r.err # NoErr
        THEN Result(r.v, r.err, IF r.err.e = "panic" THEN r.ec ELSE NoContext)
        ELSE decodeArrayStruct(a, T, r.v, i + 1, NoContext)
      Member(key, f) ==
        IF f = NoField
        THEN (IF disallowUnknownFields THEN Result(out, UnknownField(key), ec)
              ELSE decodeArrayStruct(a, T, out, i + 1, NoContext))
        ELSE Decoded(decodeField(a[i], T, out, f.index,
                                 [Struct |-> TypeDesc(T).name, Field |-> f.name]))
      Keyed(key) == Member(key, FieldForIndex(T, key))
  IN  IF i > Len(a) THEN Result(out, NoErr, ec)
      ELSE Keyed(Itoa(i - 1))

\* case []interface{}
decodeArray(in, T, out, ec) ==
  LET n == Len(in.a)
      Bad(value) == Result(out, withErrorContext(UnmarshalTypeError(<<value>>, T), ec), ec)
      Array(d, l, r) ==
        IF r.err # NoErr THEN Result(GArray(r.v), r.err, r.ec)
        ELSE Result(GArray([i \in 1..d.len |-> IF i <= l THEN r.v[i] ELSE Zero(d.elem)]),
                    NoErr, r.ec)
      Slice(r) == Result(GSlice(FALSE, n, r.v), r.err, r.ec)
      Grown(d, s) == Slice(decodeIndex(in.a, d.elem, s.arr, 1, n, ec))
      Into(d) ==
        CASE d.kind = "Interface" -> Result(Raw(in), NoErr, ec)
          [] d.kind = "Array" ->
               Array(d, Min2(n, d.len), decodeIndex(in.a, d.elem, out.elems, 1, Min2(n, d.len), ec))
          [] d.kind = "Slice" ->
               IF n = 0 THEN Result(MakeSlice(T, 0), NoErr, ec)
               ELSE Grown(d, IF n > Len(out.arr) THEN MakeSlice(T, n) ELSE out)
          [] d.kind = "Bool" -> Result(GBool(n # 0), NoErr, ec)
          [] d.kind = "Map" ->
               IF ~KeyKindOK(d.key) THEN Bad("object")
               ELSE decodeArrayMap(in.a, T, out.m, 1, ec)
          [] d.kind = "Struct" -> decodeArrayStruct(in.a, T, out, 1, ec)
          [] OTHER -> Bad("array")
  IN  Into(TypeDesc(T))

\* decodeObjectMap that converts an integer key without the overflow check
decodeObjectMapUnchecked(o, T, m, i, ec) ==
  LET Hooked(r, kr) ==
        IF kr.err # NoErr THEN Result(GMap(FALSE, m), kr.err, kr.ec)
        ELSE decodeObjectMap(o, T, SetMapIndex(m, kr.v, r.v), i + 1, kr.ec)
      Keyed(d, kk, key, r, pi, pu) ==
        IF r.err # NoErr THEN Result(GMap(FALSE, m), r.err, r.ec)
        ELSE IF kk # "String" /\ TypeDesc(d.key).hookText
        THEN Hooked(r, decode(JStr(key), d.key, Zero(d.key), r.ec))
        ELSE IF kk \notin {"String"} \cup IntKinds \cup UintKinds
        THEN Result(GMap(FALSE, m), Panic("json: Unexpected key type"), r.ec)
        ELSE IF \/ kk \in IntKinds /\ pi.err = "syntax"
                \/ kk \in UintKinds /\ pu.err = "syntax"
        THEN Result(GMap(FALSE, m),
                    withErrorContext(UnmarshalTypeError(<<"number ">> \o key, d.key), r.ec), r.ec)
        ELSE decodeObjectMap(o, T,
                             SetMapIndex(m,
                                         CASE kk = "String" -> GString(key)
                                           [] kk \in IntKinds -> GInt(pi.n)
                                           [] kk \in UintKinds -> GUint(pu.n),
                                         r.v),
                             i + 1, r.ec)
      Member(d, key) ==
        Keyed(d, Kind(d.key), key, decode(o[i].val, d.elem, Zero(d.elem), ec),
              ParseInt(key), ParseUint(key))
  IN  IF i > Len(o) THEN Result(GMap(FALSE, m), NoErr, ec)
      ELSE Member(TypeDesc(T), o[i].key)

\* decodeObjectMap that reads a key of an integer kind as an integer first
decodeObjectMapIntegerFirst(o, T, m, i, ec) ==
  LET Hooked(r, kr) ==
        IF kr.err # NoErr THEN Result(GMap(FALSE, m), kr.err, kr.ec)
        ELSE decodeObjectMap(o, T, SetMapIndex(m, kr.v, r.v), i + 1, kr.ec)
      Keyed(d, kk, key, r, pi, pu) ==
        IF r.err # NoErr THEN Result(GMap(FALSE, m), r.err, r.ec)
        ELSE IF kk \notin {"String"} \cup IntKinds \cup UintKinds /\ TypeDesc(d.key).hookText
        THEN Hooked(r, decode(JStr(key), d.key, Zero(d.key), r.ec))
        ELSE IF kk \notin {"String"} \cup IntKinds \cup UintKinds
        THEN Result(GMap(FALSE, m), Panic("json: Unexpected key type"), r.ec)
        ELSE IF \/ kk \in IntKinds /\ (pi.err # "none" \/ OverflowInt(kk, pi.n))
                \/ kk \in UintKinds /\ (pu.err # "none" \/ OverflowUint(kk, pu.n))
        THEN Result(GMap(FALSE, m),
                    withErrorContext(UnmarshalTypeError(<<"number ">> \o key, d.key), r.ec), r.ec)
        ELSE decodeObjectMap(o, T,
                             SetMapIndex(m,
                                         CASE kk = "String" -> GString(key)
                                           [] kk \in IntKinds -> GInt(pi.n)
                                           [] kk \in UintKinds -> GUint(pu.n),
                                         r.v),
                             i + 1, r.ec)
      Member(d, key) ==
        Keyed(d, Kind(d.key), key, decode(o[i].val, d.elem, Zero(d.elem), ec),
              ParseInt(key), ParseUint(key))
  IN  IF i > Len(o) THEN Result(GMap(FALSE, m), NoErr, ec)
      ELSE Member(TypeDesc(T), o[i].key)

\* decodeObjectMap whose scratch value starts at the entry stored under the key
decodeObjectMapInPlace(o, T, m, i, ec) ==
  LET Hooked(r, kr) ==
        IF kr.err # NoErr THEN Result(GMap(FALSE, m), kr.err, kr.ec)
        ELSE decodeObjectMap(o, T, SetMapIndex(m, kr.v, r.v), i + 1, kr.ec)
      Keyed(d, kk, key, r, pi, pu) ==
        IF r.err # NoErr THEN Result(GMap(FALSE, m), r.err, r.ec)
        ELSE IF kk # "String" /\ TypeDesc(d.key).hookText
        THEN Hooked(r, decode(JStr(key), d.key, Zero(d.key), r.ec))
        ELSE IF kk \notin {"String"} \cup IntKinds \cup UintKinds
        THEN Result(GMap(FALSE, m), Panic("json: Unexpected key type"), r.ec)
        ELSE IF \/ kk \in IntKinds /\ (pi.err # "none" \/ OverflowInt(kk, pi.n))
                \/ kk \in UintKinds /\ (pu.err # "none" \/ OverflowUint(kk, pu.n))
        THEN Result(GMap(FALSE, m),
                    withErrorContext(UnmarshalTypeError(<<"number ">> \o key, d.key), r.ec), r.ec)
        ELSE decodeObjectMap(o, T,
                             SetMapIndex(m,
                                         CASE kk = "String" -> GString(key)
                                           [] kk \in IntKinds -> GInt(pi.n)
                                           [] kk \in UintKinds -> GUint(pu.n),
                                         r.v),
                             i + 1, r.ec)
      Stored(d, es) == IF es = {} THEN Zero(d.elem) ELSE (CHOOSE e \in es : TRUE).v
      Member(d, key) ==
        Keyed(d, Kind(d.key), key,
              decode(o[i].val, d.elem, Stored(d, {e \in m : e.k = GString(key)}), ec),
              ParseInt(key), ParseUint(key))
  IN  IF i > Len(o) THEN Result(GMap(FALSE, m), NoErr, ec)
      ELSE Member(TypeDesc(T), o[i].key)

\* Object -> Map: the members in iteration order
decodeObjectMap(o, T, m, i, ec) ==
  LET Hooked(r, kr) ==
        IF kr.err # NoErr THEN Result(GMap(FALSE, m), kr.err, kr.ec)
        ELSE decodeObjectMap(o, T, SetMapIndex(m, kr.v, r.v), i + 1, kr.ec)
      Keyed(d, kk, key, r, pi, pu) ==
        IF r.err # NoErr THEN Result(GMap(FALSE, m), r.err, r.ec)
        ELSE IF kk # "String" /\ TypeDesc(d.key).hookText
        THEN Hooked(r, decode(JStr(key), d.key, Zero(d.key), r.ec))
        ELSE IF kk \notin {"String"} \cup IntKinds \cup UintKinds
        THEN Result(GMap(FALSE, m), Panic("json: Unexpected key type"), r.ec)
        ELSE IF \/ kk \in IntKinds /\ (pi.err # "none" \/ OverflowInt(kk, pi.n))
                \/ kk \in UintKinds /\ (pu.err # "none" \/ OverflowUint(kk, pu.n))
        THEN Result(GMap(FALSE, m),
                    withErrorContext(UnmarshalTypeError(<<"number ">> \o key, d.key), r.ec), r.ec)
        ELSE decodeObjectMap(o, T,
                             SetMapIndex(m,
                                         CASE kk = "String" -> GString(key)
                                           [] kk \in IntKinds -> GInt(pi.n)
                                           [] kk \in UintKinds -> GUint(pu.n),
                                         r.v),
                             i + 1, r.ec)
      Member(d, key) ==
        Keyed(d, Kind(d.key), key, decode(o[i].val, d.elem, Zero(d.elem), ec),
              ParseInt(key), ParseUint(key))
  IN  IF i > Len(o) THEN Result(GMap(FALSE, m), NoErr, ec)
      ELSE Member(TypeDesc(T), o[i].key)

\* decodeObjectStruct that never reports an unknown field
decodeObjectStructLenient(o, T, out, i, ec) ==
  LET Decoded(r) ==
        IF r.err # NoErr
        THEN Result(r.v, r.err, IF r.err.e = "panic" THEN r.ec ELSE NoContext)
        ELSE decodeObjectStruct(o, T, r.v, i + 1, NoContext)
      Member(key, f) ==
        IF f = NoField THEN decodeObjectStruct(o, T, out, i + 1, NoContext)
        ELSE Decoded(decodeField(o[i].val, T, out, f.index,
                                 [Struct |-> TypeDesc(T).name, Field |-> f.name]))
      Keyed(key) == Member(key, FieldForKey(T, key))
  IN  IF i > Len(o) THEN Result(out, NoErr, ec)
      ELSE Keyed(o[i].key)

\* decodeObjectStruct that leaves the context set when a member fails
decodeObjectStructKeepContext(o, T, out, i, ec) ==
  LET Decoded(r) ==
        IF r.err # NoErr
        THEN Result(r.v, r.err, r.ec)
        ELSE decodeObjectStruct(o, T, r.v, i + 1, NoContext)
      Member(key, f) ==
        IF f = NoField
        THEN (IF disallowUnknownFields THEN Result(out, UnknownField(key), ec)
              ELSE decodeObjectStruct(o, T, out, i + 1, NoContext))
        ELSE Decoded(decodeField(o[i].val, T, out, f.index,
                                 [Struct |-> TypeDesc(T).name, Field |-> f.name]))
      Keyed(key) == Member(key, FieldForKey(T, key))
  IN  IF i > Len(o) THEN Result(out, NoErr, ec)
      ELSE Keyed(o[i].key)

\* Object -> Struct: the members in iteration order
decodeObjectStruct(o, T, out, i, ec) ==
  LET Decoded(r) ==
        IF r.err # NoErr
        THEN Result(r.v, r.err, IF r.err.e = "panic" THEN r.ec ELSE NoContext)
        ELSE decodeObjectStruct(o, T, r.v, i + 1, NoContext)
      Member(key, f) ==
        IF f = NoField
        THEN (IF disallowUnknownFields THEN Result(out, UnknownField(key), ec)
              ELSE decodeObjectStruct(o, T, out, i + 1, NoContext))
        ELSE Decoded(decodeField(o[i].val, T, out, f.index,
                                 [Struct |-> TypeDesc(T).name, Field |-> f.name]))
      Keyed(key) == Member(key, FieldForKey(T, key))
  IN  IF i > Len(o) THEN Result(out, NoErr, ec)
      ELSE Keyed(o[i].key)

\* Object -> Slice, second loop: each member into the element its key names
decodeObjectSlice(o, ET, arr, i, ec) ==
  LET Stored(idx, r) ==
        IF r.err # NoErr THEN Result([arr EXCEPT ![idx + 1] = r.v], r.err, r.ec)
        ELSE decodeObjectSlice(o, ET, [arr EXCEPT ![idx + 1] = r.v], i + 1, r.ec)
      At(idx) ==
        IF idx < 0 THEN Result(arr, Panic("reflect: slice index out of range"), ec)
        ELSE Stored(idx, decode(o[i].val, ET, arr[idx + 1], ec))
  IN  IF i > Len(o) THEN Result(arr, NoErr, ec)
      ELSE At(ToSmall(ParseInt(o[i].key).n))

\* decodeObjectArray that stores a key at or past the length in the last position
decodeObjectArrayClamped(o, T, arr, i, ec) ==
  LET Stored(idx, r) ==
        IF r.err # NoErr THEN Result([arr EXCEPT ![idx + 1] = r.v], r.err, r.ec)
        ELSE decodeObjectArray(o, T, [arr EXCEPT ![idx + 1] = r.v], i + 1, r.ec)
      At(idx) ==
        IF idx < 0 THEN Result(arr, Panic("reflect: array index out of range"), ec)
        ELSE Stored(idx, decode(o[i].val, TypeDesc(T).elem, arr[idx + 1], ec))
      Keyed(pi) ==
        IF pi.err # "none"
        THEN Result(arr, withErrorContext(UnmarshalTypeError(<<"number">>, "string"), ec), ec)
        ELSE At(Min2(ToSmall(pi.n), Len(arr) - 1))
  IN  IF i > Len(o) THEN Result(arr, NoErr, ec)
      ELSE Keyed(ParseInt(o[i].key))

\* Object -> Array, the loop after the zero fill
decodeObjectArray(o, T, arr, i, ec) ==
  LET Stored(idx, r) ==
        IF r.err # NoErr THEN Result([arr EXCEPT ![idx + 1] = r.v], r.err, r.ec)
        ELSE decodeObjectArray(o, T, [arr EXCEPT ![idx + 1] = r.v], i + 1, r.ec)
      At(idx) ==
        IF idx >= Len(arr) THEN decodeObjectArray(o, T, arr, i + 1, ec)
        ELSE IF idx < 0 THEN Result(arr, Panic("reflect: array index out of range"), ec)
        ELSE Stored(idx, decode(o[i].val, TypeDesc(T).elem, arr[idx + 1], ec))
      Keyed(pi) ==
        IF pi.err # "none"
        THEN Result(arr, withErrorContext(UnmarshalTypeError(<<"number">>, "string"), ec), ec)
        ELSE At(ToSmall(pi.n))
  IN  IF i > Len(o) THEN Result(arr, NoErr, ec)
      ELSE Keyed(ParseInt(o[i].key))

\* MaxKey counted from 0 instead of -1
MaxKeyFromZero(o) ==
  LET Greatest(ks) == CHOOSE n \in ks : \A j \in ks : j <= n
  IN  Greatest({ToSmall(ParseInt(o[i].key).n) : i \in 1..Len(o)} \cup {0})

\* max of int(i) over the keys, from -1
MaxKey(o) ==
  LET Greatest(ks) == CHOOSE n \in ks : \A j \in ks : j <= n
  IN  Greatest({ToSmall(ParseInt(o[i].key).n) : i \in 1..Len(o)} \cup {0 - 1})

\* case map[string]interface{}
decodeObject(in, T, out, ec) ==
  LET o == in.o
      Bad(value, typ) == Result(out, withErrorContext(UnmarshalTypeError(<<value>>, typ), ec), ec)
      Converted(cv) == IF cv.err = NoErr THEN Result(cv.v, NoErr, ec) ELSE Result(out, cv.err, ec)
      Slice(n, r) == Result(GSlice(FALSE, n, r.v), r.err, r.ec)
      Array(r) == Result(GArray(r.v), r.err, r.ec)
      Filled(ET, max, zeroed) ==
        IF max + 1 > out.len
        THEN Result(GSlice(FALSE, out.len, zeroed), Panic("reflect: slice index out of range"), ec)
        ELSE Slice(max + 1, decodeObjectSlice(o, ET, zeroed, 1, ec))
      Sized(ET, max, zero) ==
        IF max < 0 \/ max + 1 > Len(out.arr)
        THEN Slice(max + 1, decodeObjectSlice(o, ET, [i \in 1..(max + 1) |-> zero], 1, ec))
        ELSE Filled(ET, max,
                    [i \in 1..Len(out.arr) |->
                       IF i <= Min2(max + 1, out.len) THEN zero ELSE out.arr[i]])
      Into(d) ==
        CASE d.kind = "Interface" ->
               IF useNumber THEN Result(Raw(in), NoErr, ec)
               ELSE Converted(convertNumber2Float64(in))
          [] d.kind = "Map" ->
               IF Kind(d.key) = "String" /\ Kind(d.elem) = "Interface" /\ out.m = {}
               THEN Result(Raw(in), NoErr, ec)
               ELSE IF ~KeyKindOK(d.key) THEN Bad("object", T)
               ELSE decodeObjectMap(o, T, out.m, 1, ec)
          [] d.kind = "Struct" -> decodeObjectStruct(o, T, out, 1, ec)
          [] d.kind = "Bool" -> Result(GBool(Len(o) # 0), NoErr, ec)
          [] d.kind = "Slice" ->
               IF \E i \in 1..Len(o) : ParseInt(o[i].key).err # "none"
               THEN Bad("number", "string")
               ELSE Sized(d.elem, MaxKey(o), Zero(d.elem))
          [] d.kind = "Array" ->
               Array(decodeObjectArray(o, T, [i \in 1..d.len |-> Zero(d.elem)], 1, ec))
          [] OTHER -> Bad("object", T)
  IN  Into(TypeDesc(T))

\* if u != nil
decodeUnmarshaler(in, T, out, ec) ==
  LET Called(r) == Result(r.v, r.err, ec)
  IN  Called(UnmarshalJSON(T, Marshal(in), out))

\* if ut != nil
decodeTextUnmarshaler(in, T, out, ec) ==
  LET Called(r) == Result(r.v, r.err, ec)
      Bad(value) == Result(out, withErrorContext(UnmarshalTypeError(value, T), ec), ec)
  IN  CASE in.k = "string" -> Called(UnmarshalText(T, in.s, out))
        [] in.k = "number" -> Bad(<<"number">>)
        [] in.k = "bool" -> Bad(<<"bool">>)
        [] in.k = "null" -> Bad(<<"null">>)
        [] OTHER -> Bad(<< >>)

\* indirect on an interface that holds a pointer: the value is loaded from
\* the interface and the walk goes on from that pointer
Loads(in, T, out) ==
  /\ Kind(T) = "Interface"
  /\ out.g = "held"
  /\ ~out.ptr.isnil
  /\ (in.k # "null" \/ Kind(TypeDesc(out.typ).elem) = "Ptr")

decodeHeld(in, out, ec) ==
  LET Kept(r) == Result(GHeld(out.typ, r.v), r.err, r.ec)
  IN  Kept(decode(in, out.typ, out.ptr, ec))

\* indirect(out, in == nil): which method, if any, takes the value, and
\* otherwise the location pv, with its type, that the switch on in.(type)
\* works on
RECURSIVE indirect(_, _, _)
indirect(in, T, out) ==
  LET Through(elem) ==
        IF in.k = "null" /\ (out.isnil \/ Kind(elem) # "Ptr")
        THEN [u |-> "none", T |-> T, pv |-> out]
        ELSE indirect(in, elem, IF out.isnil THEN Zero(elem) ELSE out.p)
  IN  IF Kind(T) = "Ptr" THEN Through(TypeDesc(T).elem)
      ELSE IF Loads(in, T, out) THEN indirect(in, out.typ, out.ptr)
      ELSE IF TypeDesc(T).hookJSON THEN [u |-> "Unmarshaler", T |-> T, pv |-> out]
      ELSE IF TypeDesc(T).hookText /\ in.k # "null" THEN [u |-> "TextUnmarshaler", T |-> T, pv |-> out]
      ELSE [u |-> "none", T |-> T, pv |-> out]

\* decode that looks for a TextUnmarshaler whatever the value is
decodeTextOnNull(in, T, out, ec) ==
  IF Kind(T) = "Ptr" THEN decodePtr(in, T, out, ec)
  ELSE IF Loads(in, T, out) THEN decodeHeld(in, out, ec)
  ELSE IF TypeDesc(T).hookJSON THEN decodeUnmarshaler(in, T, out, ec)
  ELSE IF TypeDesc(T).hookText THEN decodeTextUnmarshaler(in, T, out, ec)
  ELSE CASE in.k = "null" -> decodeNil(T, out, ec)
         [] in.k = "bool" -> decodeBool(in, T, out, ec)
         [] in.k = "number" -> decodeNumber(in, T, out, ec)
         [] in.k = "string" -> decodeString(in, T, out, ec)
         [] in.k = "array" -> decodeArray(in, T, out, ec)
         [] in.k = "object" -> decodeObject(in, T, out, ec)

\* indirect, then the hooks of the destination, then the switch on in.(type)
decode(in, T, out, ec) ==
  IF Kind(T) = "Ptr" THEN decodePtr(in, T, out, ec)
  ELSE IF Loads(in, T, out) THEN decodeHeld(in, out, ec)
  ELSE IF TypeDesc(T).hookJSON THEN decodeUnmarshaler(in, T, out, ec)
  ELSE IF TypeDesc(T).hookText /\ in.k # "null" THEN decodeTextUnmarshaler(in, T, out, ec)
  ELSE CASE in.k = "null" -> decodeNil(T, out, ec)
         [] in.k = "bool" -> decodeBool(in, T, out, ec)
         [] in.k = "number" -> decodeNumber(in, T, out, ec)
         [] in.k = "string" -> decodeString(in, T, out, ec)
         [] in.k = "array" -> decodeArray(in, T, out, ec)
         [] in.k = "object" -> decodeObject(in, T, out, ec)

\* ------------------------------------------------------------------------
\* The decoder as a state machine.  One Decoder reads the values of a stream
\* into one variable of the caller.
\*   build                  the platform and library the program is built with
\*   input, pos             the values of the stream, and how many are consumed
\*   useNumber, disallowUnknownFields, errorContext   the Decoder's fields
\*   tgtType, tgt           the caller's variable: its type and current value
\*   ret                    the error the last Decode returned
\*   call                   the last call: its argument, the value it read, and
\*                          the variable and position before it
\* ------------------------------------------------------------------------
\* what float-to-integer conversion gives out of range, and whether
\* big.Float.Uint64 reports a truncated value as Exact
Builds == [arch : {"amd64", "arm64"}, uint64Exact : BOOLEAN]

\* the arguments a caller can hand to Decode: a pointer to its variable, nil,
\* or the variable itself
Args == {"pointer", "nil", "non-pointer"}

\* malformed text in the stream
SyntaxItem == [k |-> "syntax"]

None == [k |-> "none"]

EOF == [e |-> "EOF"]

SyntaxError == [e |-> "SyntaxError"]

NewDecoder == [op |-> "NewDecoder", v |-> "", in |-> None, before |-> None, pos |-> 0]

\* ReadValue that reads again the value on which the last call failed
ReadValueAgain ==
  IF ret # NoErr /\ pos >= 1 THEN [err |-> NoErr, iv |-> input[pos]]
  ELSE IF pos = Len(input) THEN [err |-> EOF, iv |-> None]
  ELSE IF input[pos + 1] = SyntaxItem THEN [err |-> SyntaxError, iv |-> None]
  ELSE [err |-> NoErr, iv |-> input[pos + 1]]

\* dec.dec.Decode(&iv): the next value of the stream, io.EOF at its end, the
\* syntax error at malformed text (which stays pending)
ReadValue ==
  IF pos = Len(input) THEN [err |-> EOF, iv |-> None]
  ELSE IF input[pos + 1] = SyntaxItem THEN [err |-> SyntaxError, iv |-> None]
  ELSE [err |-> NoErr, iv |-> input[pos + 1]]

\* no call of Decode is in progress
Idle == stack = << >> /\ call.op # "return"

Decode(v) ==
  LET Stored(r) ==
        /\ pos' = pos + 1
        /\ tgt' = r.v
        /\ ret' = r.err
        /\ errorContext' = r.ec
      Read(rd) ==
        /\ call' = [op |-> "Decode", v |-> v, in |-> rd.iv, before |-> tgt, pos |-> pos]
        /\ IF rd.err # NoErr
           THEN /\ ret' = rd.err
                /\ UNCHANGED <<pos, tgt, errorContext>>
           ELSE IF v # "pointer"
           THEN /\ pos' = pos + 1
                /\ ret' = InvalidUnmarshalError(v)
                /\ UNCHANGED <<tgt, errorContext>>
           ELSE Stored(decode(rd.iv, tgtType, tgt, errorContext))
  IN  /\ ret.e # "panic"
      /\ Idle
      /\ Read(ReadValue)
      /\ UNCHANGED <<build, input, useNumber, disallowUnknownFields, tgtType, stack>>

DisallowUnknownFields ==
  /\ ret.e \notin {"panic", "fatal"}
  /\ Idle
  /\ disallowUnknownFields' = TRUE
  /\ call' = [NewDecoder EXCEPT !.op = "DisallowUnknownFields"]
  /\ UNCHANGED <<build, input, pos, useNumber, errorContext, tgtType, tgt, ret, stack>>

UseNumber ==
  /\ ret.e \notin {"panic", "fatal"}
  /\ Idle
  /\ useNumber' = TRUE
  /\ call' = [NewDecoder EXCEPT !.op = "UseNumber"]
  /\ UNCHANGED <<build, input, pos, disallowUnknownFields, errorContext, tgtType, tgt, ret, stack>>

Next ==
  \/ \E v \in Args : Decode(v)
  \/ DisallowUnknownFields
  \/ UseNumber

\* the state NewDecoder leaves, for a stream and a variable of the caller
Start(stream, T, v) ==
  /\ input = stream
  /\ pos = 0
  /\ useNumber = FALSE
  /\ disallowUnknownFields = FALSE
  /\ errorContext = NoContext
  /\ tgtType = T
  /\ tgt = v
  /\ ret = NoErr
  /\ call = NewDecoder
  /\ stack = << >>

\* ------------------------------------------------------------------------
\* Scalars: every scalar destination, zero or already set, and one value
\* ------------------------------------------------------------------------
NumberLiterals ==
  {<<"0">>, <<"-", "0">>, <<"0", ".", "0">>, <<"0", "e", "5">>, <<"1">>, <<"-", "1">>,
   <<"7">>, <<"0", ".", "1">>, <<"1", ".", "5">>, <<"3", ".", "9">>,
   <<"-", "3", ".", "9">>, <<"1", "e", "2">>, <<"1", "2", "7">>,
   <<"1", "2", "7", ".", "9">>, <<"1", "2", "8">>, <<"-", "1", "2", "8">>,
   <<"-", "1", "2", "9">>, <<"2", "5", "5">>, <<"2", "5", "6">>,
   <<"2", "1", "4", "7", "4", "8", "3", "6", "4", "8">>,
   <<"4", "2", "9", "4", "9", "6", "7", "2", "9", "6">>,
   <<"1", "e", "-", "4", "0", "0">>, <<"1", "e", "4", "0", "0">>,
   <<"9", "2", "2", "3", "3", "7", "2", "0", "3", "6", "8", "5", "4", "7", "7", "5", "8", "0", "7">>,
   <<"9", "2", "2", "3", "3", "7", "2", "0", "3", "6", "8", "5", "4", "7", "7", "5", "8", "0", "8">>,
   <<"9", "2", "2", "3", "3", "7", "2", "0", "3", "6", "8", "5", "4", "7", "7", "5", "8", "0", "8", ".", "5">>,
   <<"-", "9", "2", "2", "3", "3", "7", "2", "0", "3", "6", "8", "5", "4", "7", "7", "5", "8", "0", "8">>,
   <<"-", "9", "2", "2", "3", "3", "7", "2", "0", "3", "6", "8", "5", "4", "7", "7", "5", "8", "0", "9">>,
   <<"1", "8", "4", "4", "6", "7", "4", "4", "0", "7", "3", "7", "0", "9", "5", "5", "1", "6", "1", "5">>,
   <<"1", "8", "4", "4", "6", "7", "4", "4", "0", "7", "3", "7", "0", "9", "5", "5", "1", "6", "1", "6">>}

StringValues ==
  {<<>>, <<"0">>, <<"1">>, <<"a">>, <<"0", ".", "0">>, <<"3", ".", "9">>,
   <<"-", "1">>, <<"+", "5">>, <<"n", "a", "n">>, <<"f", "a", "l", "s", "e">>,
   <<"9", "2", "2", "3", "3", "7", "2", "0", "3", "6", "8", "5", "4", "7", "7", "5", "8", "0", "8">>}

ScalarTypes ==
  {"bool", "int8", "int16", "int32", "int64", "int", "uint8", "uint", "uint64",
   "float32", "float64", "string", "interface{}"}

\* a value a variable of type T may hold before the call, other than its zero
RECURSIVE Preset(_)
Preset(T) ==
  LET Of(d) ==
        CASE d.kind = "Bool" -> GBool(TRUE)
          [] d.kind \in IntKinds -> GInt(Small(5))
          [] d.kind \in UintKinds -> GUint(<<5>>)
          [] d.kind \in FloatKinds -> GFloat(FOne)
          [] d.kind = "String" -> GString(<<"p">>)
          [] d.kind = "Interface" -> GString(<<"p">>)
          [] d.kind = "Array" -> GArray([i \in 1..d.len |-> Preset(d.elem)])
          [] d.kind = "Map" ->
               GMap(FALSE, {[k |-> IF Kind(d.key) = "String" THEN GString(<<"0">>) ELSE Preset(d.key),
                             v |-> Preset(d.elem)]})
          [] d.kind = "Struct" -> GStruct([i \in 1..Len(d.fields) |-> Preset(d.fields[i].typ)])
          [] d.kind = "Ptr" -> GPtr(TRUE, GNil)
  IN  Of(TypeDesc(T))

ScalarInputs ==
  {JNull, JBool(TRUE), JBool(FALSE)}
    \cup {JNum(l) : l \in NumberLiterals}
    \cup {JStr(t) : t \in StringValues}
    \cup {JArr(<< >>), JArr(<<JNum(<<"0">>)>>), JObj(<< >>), JObj(<<Mem(<<"a">>, JNull)>>)}

\* the streams of the scalar runs: one value, then nothing, a second value or
\* malformed text; and the streams that start with nothing to read
ScalarStreams ==
  {<<x>> : x \in ScalarInputs}
    \cup {<< >>, <<SyntaxItem>>, <<JNum(<<"1">>), JNum(<<"7">>)>>, <<JBool(TRUE), SyntaxItem>>}

Init ==
  /\ build \in Builds
  /\ \E T \in ScalarTypes : \E v \in {Zero(T), Preset(T)} : \E stream \in ScalarStreams :
       Start(stream, T, v)

Spec == Init /\ [][Next]_vars

\* ------------------------------------------------------------------------
\* Sequences: slices in every state of length and capacity, a fixed array, a
\* map and a struct keyed "0"; objects with their members in the order this
\* run's map iteration visits them
\* ------------------------------------------------------------------------
MaxCap == 2

MaxMembers == 2

\* the objects of at most MaxMembers members, keys distinct, over keys and values
Objects(keys, values) ==
  UNION {{o \in [1..n -> {Mem(k, v) : k \in keys, v \in values}] :
            \A i, j \in 1..n : i # j => o[i].key # o[j].key} : n \in 0..MaxMembers}

Arrays(values) == UNION {[1..n -> values] : n \in 0..MaxMembers}

SeqKeys == {<<"0">>, <<"1">>, <<"-", "1">>, <<"x">>}

SeqValues == {JStr(<<"b">>), JNum(<<"7">>), JNum(<<"3", "0", "0">>)}

SeqInputs ==
  {JObj(o) : o \in Objects(SeqKeys, SeqValues)}
    \cup {JArr(a) : a \in Arrays(SeqValues)}
    \cup {JNull, JBool(TRUE), JNum(<<"7">>), JStr(<<"b">>)}

\* a slice variable before the call: nil, or of any length within any capacity
SliceStates(T) ==
  {GNilSlice}
    \cup UNION {{GSlice(FALSE, l, [i \in 1..c |-> Preset(TypeDesc(T).elem)]) : l \in 0..c} :
                  c \in 0..MaxCap}

SeqTypes == {"[]string", "[]int8", "[1]int", "[2]string", "map[string]string", "phpArray"}

SeqStates(T) == IF Kind(T) = "Slice" THEN SliceStates(T) ELSE {Zero(T), Preset(T)}

InitSeq ==
  /\ build = [arch |-> "amd64", uint64Exact |-> TRUE]
  /\ \E T \in SeqTypes : \E v \in SeqStates(T) : \E x \in SeqInputs : Start(<<x>>, T, v)

SpecSeq == InitSeq /\ [][Next]_vars

\* ------------------------------------------------------------------------
\* Structs: plain, ignored and unexported fields, embedded structs whose
\* fields collide, a nested struct, and a struct keyed "0"
\* ------------------------------------------------------------------------
StructKeys == {<<"X">>, <<"Y">>, <<"x">>, <<"Q">>}

StructValues == {JNum(<<"1">>), JStr(<<"a">>)}

NestedKeys == {<<"F", "1">>, <<"F", "2">>, <<"F", "4">>, <<"Q">>}

NestedValues == StructValues \cup {JNum(<<"1", "e", "4", "0", "0">>), JObj(<< >>)}

\* a VOuter inside a VOuter, n times: V.F4 points to the next one
MaxNest == 3

RECURSIVE Nest(_)
Nest(n) ==
  IF n = 0 THEN JObj(<< >>)
  ELSE JObj(<<Mem(<<"V">>, JObj(<<Mem(<<"F", "4">>, Nest(n - 1))>>))>>)

StructTypes == {"T", "tx", "S5", "S10", "VOuter", "phpArray", "Ambig", "SmallByInt"}

\* values for a Small: Tag set, nothing set, and Tag given an object
SmallValues ==
  {JObj(<<Mem(<<"T", "a", "g">>, JStr(<<"a">>))>>), JObj(<< >>),
   JObj(<<Mem(<<"T", "a", "g">>, JObj(<< >>))>>)}

SmallKeys == {<<"1">>, <<"x">>}

AmbigKeys == {<<"h", "e", "l", "l", "o">>, <<"H", "e", "l", "l", "o">>, <<"H", "E", "L", "L", "O">>}

StructInputs(T) ==
  CASE T = "VOuter" ->
         {JObj(<<Mem(<<"V">>, JObj(o))>>) : o \in Objects(NestedKeys, NestedValues)}
           \cup {Nest(n) : n \in 1..MaxNest}
    [] T = "phpArray" ->
         {JArr(a) : a \in Arrays(StructValues)} \cup {JBool(TRUE), JNum(<<"1">>), JStr(<<"a">>)}
    [] T = "Ambig" -> {JObj(o) : o \in Objects(AmbigKeys, StructValues)}
    [] T = "SmallByInt" -> {JObj(<<Mem(<<"M">>, JObj(o))>>) : o \in Objects(SmallKeys, SmallValues)}
    [] OTHER -> {JObj(o) : o \in Objects(StructKeys, StructValues)}

InitStruct ==
  /\ build = [arch |-> "amd64", uint64Exact |-> TRUE]
  /\ \E T \in StructTypes : \E v \in {Zero(T), Preset(T)} : \E x \in StructInputs(T) :
       Start(<<x>>, T, v)

SpecStruct == InitStruct /\ [][Next]_vars

\* ------------------------------------------------------------------------
\* Maps: every kind of key (string, the integer kinds at both ends of their
\* range, keys that unmarshal themselves from text, and kinds a key cannot
\* have), nil, empty and filled, and objects whose keys sit on both sides of
\* what the key type accepts
\* ------------------------------------------------------------------------
MapTypes ==
  {"map[string]string", "map[int]string", "map[int8]string", "map[uint8]string",
   "map[int64]string", "map[uint64]string", "map[u8marshal]int", "map[unmarshalerText]bool",
   "map[Point]string", "map[float64]string", "map[unmarshaler]string",
   "map[string]interface{}"}

MapKeys(T) ==
  CASE T = "map[int]string" -> {<<"0">>, <<"-", "1">>, <<"x">>, <<"1", ".", "5">>, <<"+", "1">>}
    [] T = "map[int8]string" -> {<<"0">>, <<"-", "1">>, <<"1", "2", "7">>, <<"1", "2", "8">>, <<"-", "1", "2", "9">>, <<"x">>}
    [] T = "map[uint8]string" -> {<<"0">>, <<"-", "1">>, <<"2", "5", "5">>, <<"2", "5", "6">>, <<"+", "1">>}
    [] T = "map[int64]string" ->
         {<<"0">>,
          <<"9", "2", "2", "3", "3", "7", "2", "0", "3", "6", "8", "5", "4", "7", "7", "5", "8", "0", "7">>,
          <<"9", "2", "2", "3", "3", "7", "2", "0", "3", "6", "8", "5", "4", "7", "7", "5", "8", "0", "8">>,
          <<"-", "9", "2", "2", "3", "3", "7", "2", "0", "3", "6", "8", "5", "4", "7", "7", "5", "8", "0", "8">>}
    [] T = "map[uint64]string" ->
         {<<"0">>, <<"-", "1">>,
          <<"1", "8", "4", "4", "6", "7", "4", "4", "0", "7", "3", "7", "0", "9", "5", "5", "1", "6", "1", "5">>,
          <<"1", "8", "4", "4", "6", "7", "4", "4", "0", "7", "3", "7", "0", "9", "5", "5", "1", "6", "1", "6">>}
    [] T = "map[u8marshal]int" -> {<<"u", "2">>, <<"2">>, <<"u", "2", "5", "6">>, <<"u", "x">>, <<"u", "-", "1">>}
    [] T = "map[unmarshalerText]bool" -> {<<"x", ":", "y">>, <<"x", "y">>, <<":">>}
    [] OTHER -> {<<"0">>, <<"x">>, <<"1", ".", "5">>}

MapValues == {JStr(<<"b">>), JNum(<<"4">>), JNull}

MapInputs(T) ==
  {JObj(o) : o \in Objects(MapKeys(T), MapValues)} \cup {JArr(a) : a \in Arrays(MapValues)}

\* a map variable before the call: nil, empty, or holding one entry, which
\* for a string key sits under a key of the inputs
MapStates(T) ==
  {GNilMap, GMap(FALSE, {}),
   IF Kind(TypeDesc(T).key) = "String" THEN Preset(T)
   ELSE GMap(FALSE, {[k |-> Preset(TypeDesc(T).key), v |-> Preset(TypeDesc(T).elem)]})}

InitMap ==
  /\ build = [arch |-> "amd64", uint64Exact |-> TRUE]
  /\ \E T \in MapTypes : \E v \in MapStates(T) : \E x \in MapInputs(T) : Start(<<x>>, T, v)

SpecMap == InitMap /\ [][Next]_vars

\* ------------------------------------------------------------------------
\* Indirection and hooks: destinations that unmarshal themselves, pointers
\* of one and two levels, an interface that is nil or holds a value or a
\* pointer, and the plain kinds beside them; one value of every JSON kind
\* ------------------------------------------------------------------------
HookTypes ==
  {"RawMessage", "unmarshaler", "unmarshalerText", "u8marshal", "*unmarshalerText",
   "*int", "**int", "interface{}", "[]string", "map[string]string", "T", "[2]string",
   "bool", "int", "uint8", "float64", "string"}

\* a value other than the zero value, pointers pointing to one
RECURSIVE Filled(_)
Filled(T) ==
  CASE Kind(T) = "Ptr" -> GPtr(FALSE, Filled(TypeDesc(T).elem))
    [] Kind(T) = "Slice" -> GSlice(FALSE, 1, <<Preset(TypeDesc(T).elem)>>)
    [] OTHER -> Preset(T)

HookStates(T) ==
  {Zero(T), Filled(T)}
    \cup (IF T = "**int" THEN {GPtr(FALSE, Zero("*int"))} ELSE {})
    \cup (IF T = "interface{}"
          THEN {GHeld("*int", Filled("*int")), GHeld("**int", Filled("**int"))}
          ELSE {})

HookInputs ==
  {JNull, JBool(TRUE), JBool(FALSE),
   JNum(<<"0">>), JNum(<<"7">>), JNum(<<"1", "e", "2">>), JNum(<<"2", ".", "5">>),
   JNum(<<"1", "e", "4", "0", "0">>),
   JStr(<< >>), JStr(<<"7">>), JStr(<<"x", ":", "y">>), JStr(<<"x", "y">>), JStr(<<"u", "2">>),
   JStr(<<"a", "<", "b">>),
   JArr(<< >>), JArr(<<JNull>>), JArr(<<JNum(<<"1">>), JStr(<<"b">>)>>),
   JObj(<< >>), JObj(<<Mem(<<"0">>, JStr(<<"x", ":", "y">>))>>),
   JObj(<<Mem(<<"b">>, JNum(<<"1">>)), Mem(<<"a">>, JNull)>>),
   JObj(<<Mem(<<"a">>, JNull), Mem(<<"b">>, JNum(<<"1">>))>>)}

InitHook ==
  /\ build = [arch |-> "amd64", uint64Exact |-> TRUE]
  /\ \E T \in HookTypes : \E v \in HookStates(T) : \E x \in HookInputs : Start(<<x>>, T, v)

SpecHook == InitHook /\ [][Next]_vars

\* ------------------------------------------------------------------------
\* Properties.  call records the last call: the operation, the argument v,
\* the value read (in), the variable before the call and the position of
\* the stream before the call.
\* ------------------------------------------------------------------------
\* the last call was a Decode that handed the value it read to decode
Coerced == call.op = "Decode" /\ call.v = "pointer" /\ call.in # None

\* a number text whose mantissa digits are all 0
ZeroLiteral(s) ==
  \A i \in 1..Len(s) : (\A j \in 1..i : s[j] \notin {"e", "E"}) => s[i] \in {"0", ".", "-", "+"}

\* the values the falsy rule lists
Falsy(v) ==
  CASE v.k = "null" -> TRUE
    [] v.k = "bool" -> ~v.b
    [] v.k = "number" -> ZeroLiteral(v.s)
    [] v.k = "string" -> v.s \in {<< >>, <<"0">>}
    [] v.k = "array" -> v.a = << >>
    [] v.k = "object" -> v.o = << >>

\* a number text whose nearest float64 is zero
RoundsToZero(s) ==
  LET IsZero(pf) == pf.err = "none" /\ FIsZero(pf.f)
  IN  IsZero(ParseFloat(s, 64))

FalsyFloat(v) == IF v.k = "number" THEN RoundsToZero(v.s) ELSE Falsy(v)

HasFraction(s) ==
  /\ \E i \in 1..Len(s) : s[i] = "."
  /\ \A i \in 1..Len(s) : s[i] \notin {"e", "E"}

\* powers of ten past this one leave every 64-bit range
FarExp == 40

\* the decimal value of a number text, truncated toward zero (exact up to
\* 10^FarExp times its digits, which is outside every range already; zero
\* when the point lies left of every digit)
Truncated(s) ==
  LET Of(sc) ==
        IF sc.E >= 0 THEN MkInt(sc.neg, NMulPow10(sc.D, Min2(sc.E, FarExp)))
        ELSE IF 0 - sc.E > Len(sc.ip) + Len(sc.fp) THEN IntZero
        ELSE MkInt(sc.neg, NDivPow10(sc.D, 0 - sc.E).q)
  IN  Of(ScanDecimal(s))

\* n is a value of the integer kind k
InRange(n, k) ==
  IF k \in IntKinds THEN ~OverflowInt(k, n) ELSE ~n.neg /\ ~OverflowUint(k, n.mag)

\* C2: a number with a fraction, decoded into a signed integer variable of
\* any width that its truncated value fits, is stored truncated toward
\* zero, without an error.
C2_Truncation ==
  (/\ Coerced
   /\ call.in.k = "number"
   /\ HasFraction(call.in.s)
   /\ Kind(tgtType) \in IntKinds
   /\ InRange(Truncated(call.in.s), Kind(tgtType)))
    => (ret = NoErr /\ tgt = GInt(Truncated(call.in.s)))

\* a number, or a string holding the text of one
NumericText(v) ==
  LET Scanned(sc) == sc.ok
  IN  v.k \in {"number", "string"} /\ v.s # << >> /\ Scanned(ScanDecimal(v.s))

\* C3: a number or numeric string whose truncated value lies outside the
\* range of the integer variable it is decoded into is an error, and the
\* variable keeps its value.
C3_NeverWraps ==
  (/\ Coerced
   /\ Kind(tgtType) \in IntKinds \cup UintKinds
   /\ NumericText(call.in)
   /\ ~InRange(Truncated(call.in.s), Kind(tgtType)))
    => (ret # NoErr /\ tgt = call.before)

\* C4: Decode with nil or a non-pointer returns InvalidUnmarshalError and
\* leaves the stream where it was, whatever is pending.
C4_InvalidTargetFirst ==
  (call.op = "Decode" /\ call.v # "pointer") =>
    (ret = InvalidUnmarshalError(call.v) /\ pos = call.pos)

\* a key that is a non-negative base-10 integer
IndexKey(key) == key # << >> /\ \A i \in 1..Len(key) : IsDigit(key[i])

IndexKeys(o) == \A i \in 1..Len(o) : IndexKey(o[i].key)

ElemOf(T) == TypeDesc(T).elem

\* v decoded into a new variable of type ET
Coerce(v, ET) == decode(v, ET, Zero(ET), NoContext)

HasKey(o, key) == \E j \in 1..Len(o) : o[j].key = key

ValueOf(o, key) == o[CHOOSE j \in 1..Len(o) : o[j].key = key].val

\* what index i holds in the slice an object describes
Described(o, ET, i) == IF HasKey(o, Itoa(i)) THEN Coerce(ValueOf(o, Itoa(i)), ET).v ELSE Zero(ET)

\* C5: an object whose keys are all non-negative integers (and whose values
\* the element type takes), decoded into a slice in any state, gives a slice
\* of length max key + 1 holding the given values, zero elsewhere.
C5_ForcedObjectArray ==
  (/\ Coerced
   /\ call.in.k = "object"
   /\ Kind(tgtType) = "Slice"
   /\ IndexKeys(call.in.o)
   /\ \A j \in 1..Len(call.in.o) : Coerce(call.in.o[j].val, ElemOf(tgtType)).err = NoErr)
    => /\ ret = NoErr
       /\ ~tgt.isnil
       /\ tgt.len = MaxKey(call.in.o) + 1
       /\ \A i \in 1..tgt.len : tgt.arr[i] = Described(call.in.o, ElemOf(tgtType), i - 1)

\* the keys of o are "0" .. "n-1"
Dense(o) == \A i \in 1..Len(o) : HasKey(o, Itoa(i - 1))

\* the array whose JSON_FORCE_OBJECT form o is
ArrayForm(o) == JArr([i \in 1..Len(o) |-> ValueOf(o, Itoa(i - 1))])

C6Case ==
  /\ Coerced
  /\ call.in.k = "object"
  /\ Kind(tgtType) = "Slice"
  /\ call.before = GNilSlice
  /\ Dense(call.in.o)

\* C6 as stated: an object with the keys "0".."n-1" and the array of the same
\* values, decoded into a new slice, give the same error or equal slices.
C6_ForcedObjectAsArray ==
  LET Same(a) == ret = a.err /\ (ret = NoErr => tgt = a.v)
  IN  C6Case => Same(decode(ArrayForm(call.in.o), tgtType, call.before, NoContext))

\* C6 amended: both succeed with equal slices, or both fail; the object's
\* error is the error of one of its values, not always the first in index
\* order.
C6_ForcedObjectAsArrayValues ==
  LET Alike(a) ==
        /\ (ret = NoErr) = (a.err = NoErr)
        /\ ret = NoErr => tgt = a.v
        /\ ret # NoErr =>
             \E j \in 1..Len(call.in.o) : Coerce(call.in.o[j].val, ElemOf(tgtType)).err = ret
  IN  C6Case => Alike(decode(ArrayForm(call.in.o), tgtType, call.before, NoContext))

C6_OtherErrorFirst ==
  LET Differs(a) == ret # NoErr /\ a.err # NoErr /\ ret # a.err
  IN  /\ C6Case
      /\ Len(call.in.o) = 2
      /\ Differs(decode(ArrayForm(call.in.o), tgtType, call.before, NoContext))

\* C7: an object with a key that is no non-negative integer, decoded into a
\* slice or an array, returns a type error.
C7_BadKeyIsError ==
  (/\ Coerced
   /\ call.in.k = "object"
   /\ Kind(tgtType) \in {"Slice", "Array"}
   /\ ~IndexKeys(call.in.o))
    => ret.e = "UnmarshalTypeError"

Scalar(v) == v.k \in {"bool", "number", "string"}

\* C8: a scalar decoded into a slice gives length 1 with the coerced scalar
\* at index 0, in the storage the slice had when it had any; decoded into a
\* map or a struct it gives what the object {"0": scalar} gives.
C8_SingleElementWrap ==
  LET Wrapped(e) ==
        /\ ret = e.err
        /\ ~tgt.isnil
        /\ tgt.len = 1
        /\ ret = NoErr => tgt.arr[1] = e.v
        /\ Len(call.before.arr) >= 1 =>
             /\ Len(tgt.arr) = Len(call.before.arr)
             /\ \A i \in 2..Len(tgt.arr) : tgt.arr[i] = call.before.arr[i]
      Keyed(r) == ret = r.err /\ tgt = r.v
  IN  /\ (/\ Coerced
          /\ Scalar(call.in)
          /\ Kind(tgtType) = "Slice"
          /\ ~(call.in.k = "string" /\ Kind(ElemOf(tgtType)) = "Uint8"))
           => Wrapped(Coerce(call.in, ElemOf(tgtType)))
      /\ (Coerced /\ Scalar(call.in) /\ Kind(tgtType) \in {"Map", "Struct"})
           => Keyed(decode(JObj(<<Mem(<<"0">>, call.in)>>), tgtType, call.before, NoContext))

C8_WrapReusesStorage ==
  /\ Coerced
  /\ call.in = JStr(<<"b">>)
  /\ tgtType = "[]string"
  /\ call.before.len = 0
  /\ Len(call.before.arr) = 2
  /\ ret = NoErr
  /\ tgt.len = 1
  /\ tgt.arr = <<GString(<<"b">>), GString(<<"p">>)>>

\* the members a value has when it is read as an object
Members(v) ==
  CASE v.k = "object" -> v.o
    [] v.k = "array" -> [i \in 1..Len(v.a) |-> Mem(Itoa(i - 1), v.a[i])]
    [] OTHER -> <<Mem(<<"0">>, v)>>

\* key selects no field of the struct type T
Unknown(T, key) == FieldForKey(T, key) = NoField

HasUnknown(T, o) == \E j \in 1..Len(o) : Unknown(T, o[j].key)

\* the unknown members of o are skipped: r and t are the error and the value
\* that o without them gives
Skipped(T, o, before, r, t) ==
  LET Known(m) == ~Unknown(T, m.key)
      Same(d) == r = d.err /\ t = d.v
  IN  Same(decode(JObj(SelectSeq(o, Known)), T, before, NoContext))

\* r is the unknown-field error naming an unknown key of o
Named(T, o, r) == \E j \in 1..Len(o) : Unknown(T, o[j].key) /\ r = UnknownField(o[j].key)

\* the members ahead of the first unknown key are decoded; the first of them
\* to fail gives the error, else the unknown key does
FirstFailure(T, o, before, r, t) ==
  LET Stopped(j, d) ==
        /\ t = d.v
        /\ r = (IF d.err # NoErr THEN d.err ELSE UnknownField(o[j].key))
      Upto(j) == Stopped(j, decode(JObj(SubSeq(o, 1, j - 1)), T, before, NoContext))
  IN  Upto(CHOOSE j \in 1..Len(o) :
             Unknown(T, o[j].key) /\ \A i \in 1..(j - 1) : ~Unknown(T, o[i].key))

\* a value with an unknown key is decoded into a struct
C9Top ==
  /\ Coerced
  /\ Kind(tgtType) = "Struct"
  /\ call.in.k # "null"
  /\ HasUnknown(tgtType, Members(call.in))

\* the same one level down: in the member V of a VOuter
C9Nested ==
  /\ Coerced
  /\ tgtType = "VOuter"
  /\ HasUnknown("V", call.in.o[1].val.o)

\* C9 as stated: a key that matches no field is an unknown-field error
\* naming it when DisallowUnknownFields is on, at any depth, and is skipped
\* without a trace when it is off.
C9_UnknownFieldPolicy ==
  /\ C9Top =>
       IF disallowUnknownFields THEN Named(tgtType, Members(call.in), ret)
       ELSE Skipped(tgtType, Members(call.in), call.before, ret, tgt)
  /\ C9Nested =>
       IF disallowUnknownFields THEN Named("V", call.in.o[1].val.o, ret)
       ELSE Skipped("V", call.in.o[1].val.o, call.before.fs[1], ret, tgt.fs[1])

\* C9 amended: with DisallowUnknownFields on, decode stops at the first
\* unknown key it visits with the unknown-field error naming it, unless a
\* member visited before it failed, whose error is returned instead; with it
\* off the key is skipped without a trace.
C9_UnknownFieldPolicyInOrder ==
  /\ C9Top =>
       IF disallowUnknownFields
       THEN FirstFailure(tgtType, Members(call.in), call.before, ret, tgt)
       ELSE Skipped(tgtType, Members(call.in), call.before, ret, tgt)
  /\ C9Nested =>
       IF disallowUnknownFields
       THEN FirstFailure("V", call.in.o[1].val.o, call.before.fs[1], ret, tgt.fs[1])
       ELSE Skipped("V", call.in.o[1].val.o, call.before.fs[1], ret, tgt.fs[1])

C9_TypeErrorBeforeUnknown ==
  /\ C9Top
  /\ disallowUnknownFields
  /\ ret.e = "UnmarshalTypeError"

\* the fields named X of an S5 or S10, and its field Y
XsOf(v, T) ==
  IF T = "S5" THEN <<v.fs[1].fs[1], v.fs[2].fs[1], v.fs[3].fs[1].fs[1]>>
  ELSE <<v.fs[1].fs[1].fs[1], v.fs[2].fs[1].fs[1], v.fs[3].fs[1].fs[1].fs[1]>>

YOf(v, T) == IF T = "S5" THEN v.fs[3].fs[1].fs[2] ELSE v.fs[3].fs[1].fs[1].fs[2]

\* C10: in S5 and S10 the name X is claimed twice at its shallowest depth:
\* no field X at any depth changes; with DisallowUnknownFields on, the key X
\* is an unknown-field error (as long as no value of Y fails before it is
\* seen); and Y, reached through the same embeddings, is decoded.
C10_Annihilation ==
  LET Decoded(r) == YOf(tgt, tgtType) = r.v
      YDecodes(o) == HasKey(o, <<"Y">>) => Coerce(ValueOf(o, <<"Y">>), "int").err = NoErr
      Holds(o) ==
        /\ XsOf(tgt, tgtType) = XsOf(call.before, tgtType)
        /\ (disallowUnknownFields /\ HasKey(o, <<"X">>) /\ YDecodes(o)) =>
             /\ ret.e = "unknown field"
             /\ HasKey(o, ret.key)
             /\ ret.key # <<"Y">>
             /\ (\A j \in 1..Len(o) : o[j].key \in {<<"X">>, <<"Y">>}) => ret.key = <<"X">>
        /\ (ret = NoErr /\ HasKey(o, <<"Y">>)) =>
             Decoded(decode(ValueOf(o, <<"Y">>), "int", YOf(call.before, tgtType), NoContext))
  IN  (Coerced /\ tgtType \in {"S5", "S10"}) => Holds(call.in.o)

C10_YDecodedXKept ==
  /\ Coerced
  /\ tgtType = "S10"
  /\ call.before = Preset("S10")
  /\ ~disallowUnknownFields
  /\ HasKey(call.in.o, <<"X">>)
  /\ HasKey(call.in.o, <<"Y">>)
  /\ ret = NoErr
  /\ YOf(tgt, "S10") = GInt(Small(1))
  /\ XsOf(tgt, "S10") = <<GInt(Small(5)), GInt(Small(5)), GInt(Small(5))>>

\* ------------------------------------------------------------------------
\* Map keys
\* ------------------------------------------------------------------------
KeyType(T) == TypeDesc(T).key

\* a key type of neither String nor an integer kind and without a text hook
Restricted(kt) ==
  /\ Kind(kt) \notin {"String"} \cup IntKinds \cup UintKinds
  /\ ~TypeDesc(kt).hookText

\* C11: decoding an Object or an Array, empty or not, into a Map whose key
\* kind is neither String nor an integer kind and whose key type has no text
\* hook returns a type error for the map type and leaves the map as it was
\* (a nil map stays nil, nothing is inserted).
C11_MapKeyRestriction ==
  (/\ Coerced
   /\ Kind(tgtType) = "Map"
   /\ call.in.k \in {"object", "array"}
   /\ Restricted(KeyType(tgtType))) =>
    /\ ret.e = "UnmarshalTypeError"
    /\ ret.Type = tgtType
    /\ tgt = call.before

C11_EmptyObjectRejected ==
  /\ Coerced
  /\ tgtType = "map[Point]string"
  /\ call.in = JObj(<< >>)
  /\ call.before = GNilMap
  /\ ret = UnmarshalTypeError(<<"object">>, "map[Point]string")
  /\ tgt = GNilMap

\* the digits of a key: all of it for an unsigned key type, what follows an
\* optional sign for a signed one
KeyDigits(key, signed) ==
  IF signed /\ Len(key) >= 1 /\ key[1] \in {"+", "-"} THEN Tail(key) ELSE key

\* the key is a base-10 integer of the signedness of the key type
IntegerKey(key, signed) ==
  LET AllDigits(ds) == ds # << >> /\ \A i \in 1..Len(ds) : IsDigit(ds[i])
  IN  AllDigits(KeyDigits(key, signed))

\* the integer a key writes
KeyInteger(key, signed) ==
  MkInt(signed /\ key[1] = "-", NFromDigits(KeyDigits(key, signed)))

\* the integer lies in the range of kind k
KeyInRange(n, k) ==
  IF k \in IntKinds
  THEN (IF n.neg THEN NLe(n.mag, NPow2(KindBits(k) - 1)) ELSE NLt(n.mag, NPow2(KindBits(k) - 1)))
  ELSE ~n.neg /\ NLt(n.mag, NPow2(KindBits(k)))

GoodKey(key, k) ==
  IntegerKey(key, k \in IntKinds) /\ KeyInRange(KeyInteger(key, k \in IntKinds), k)

\* the map key an in-range key text stands for
KeyOf(key, k) ==
  IF k \in IntKinds THEN GInt(KeyInteger(key, TRUE)) ELSE GUint(KeyInteger(key, FALSE).mag)

\* the integer-key rule for an object o decoded into a map of key kind k
IntegerKeyRule(o, k) ==
  /\ (\E i \in 1..Len(o) : ~GoodKey(o[i].key, k)) =>
       /\ ret.e = "UnmarshalTypeError"
       /\ \E i \in 1..Len(o) : ~GoodKey(o[i].key, k) /\ ret.Value = <<"number ">> \o o[i].key
       /\ ret.Type = KeyType(tgtType)
  /\ \A e \in tgt.m :
       \/ ~call.before.isnil /\ e \in call.before.m
       \/ \E i \in 1..Len(o) :
            /\ GoodKey(o[i].key, k)
            /\ e.k = KeyOf(o[i].key, k)
            /\ e.v = Coerce(o[i].val, TypeDesc(tgtType).elem).v
  /\ ret = NoErr =>
       \A i \in 1..Len(o) : \E e \in tgt.m : e.k = KeyOf(o[i].key, k)

IntegerKeyCase ==
  /\ Coerced
  /\ Kind(tgtType) = "Map"
  /\ Kind(KeyType(tgtType)) \in IntKinds \cup UintKinds
  /\ call.in.k = "object"
  /\ \A i \in 1..Len(call.in.o) : Coerce(call.in.o[i].val, TypeDesc(tgtType).elem).err = NoErr

\* C12 as stated: for every Map whose key kind is an integer kind and every
\* Object whose values decode, a key that is not an integer, is negative for an unsigned key type or
\* lies outside the key type's range makes decode return a type error, no
\* entry is ever inserted under a wrapped key, and every in-range key is
\* inserted with its exact value.
C12_IntegerKeys == IntegerKeyCase => IntegerKeyRule(call.in.o, Kind(KeyType(tgtType)))

\* C12, amended: the same rule for the integer key types without a text
\* hook; a key type that unmarshals itself from text reads the key itself,
\* whatever its kind.
C12_IntegerKeysWithoutHook ==
  (IntegerKeyCase /\ ~TypeDesc(KeyType(tgtType)).hookText) =>
    IntegerKeyRule(call.in.o, Kind(KeyType(tgtType)))

C12_Int64EndsInserted ==
  /\ Coerced
  /\ tgtType = "map[int64]string"
  /\ call.before = GNilMap
  /\ call.in.k = "object"
  /\ Len(call.in.o) = 2
  /\ ret = NoErr
  /\ {e.k : e \in tgt.m} = {GInt(MinInt64), GInt(MaxInt64)}

\* ------------------------------------------------------------------------
\* Null, and the destination indirect arrives at
\* ------------------------------------------------------------------------
NilKinds == {"Interface", "Ptr", "Map", "Slice"}

ValueKinds == {"Bool", "String", "Struct", "Array"} \cup IntKinds \cup UintKinds \cup FloatKinds

Lost == [g |-> "lost"]

\* the value now at the place indirect arrived at: the same walk over the
\* variable as it was (out), read in the variable as it is (new)
RECURSIVE Arrived(_, _, _, _)
Arrived(in, T, out, new) ==
  LET Through(elem) ==
        IF in.k = "null" /\ (out.isnil \/ Kind(elem) # "Ptr") THEN new
        ELSE IF new.g # "ptr" \/ new.isnil THEN Lost
        ELSE Arrived(in, elem, IF out.isnil THEN Zero(elem) ELSE out.p, new.p)
  IN  IF Kind(T) = "Ptr" THEN Through(TypeDesc(T).elem)
      ELSE IF Loads(in, T, out)
      THEN (IF new.g # "held" THEN Lost ELSE Arrived(in, out.typ, out.ptr, new.ptr))
      ELSE new

\* where the last call's value went
Dest == indirect(call.in, tgtType, call.before)

DestNow == Arrived(call.in, tgtType, call.before, tgt)

\* C13 as stated: null decoded into a variable of Interface, Pointer, Map or
\* Slice kind leaves the variable at its zero (nil) value, whatever it held,
\* and returns no error.
C13_NullZeroes ==
  (Coerced /\ call.in = JNull /\ Kind(tgtType) \in NilKinds) =>
    (ret = NoErr /\ tgt = Zero(tgtType))

\* C13, amended: null goes to the destination indirect arrives at - the
\* variable itself, or the last pointer of a chain of pointers, through an
\* interface that holds a pointer to a pointer - unless the type has a
\* raw-value hook; when that destination is of Interface, Pointer, Map or
\* Slice kind it is left at its zero (nil) value, whatever it held, no
\* error is returned, and for a pointer it is the pointer that becomes nil.
C13_NullZeroesDestination ==
  (Coerced /\ call.in = JNull /\ Dest.u = "none" /\ Kind(Dest.T) \in NilKinds) =>
    (ret = NoErr /\ DestNow = Zero(Dest.T))

C13_PointerBecomesNil ==
  /\ Coerced
  /\ call.in = JNull
  /\ tgtType = "*int"
  /\ call.before = GPtr(FALSE, GInt(Small(5)))
  /\ ret = NoErr
  /\ tgt = GPtr(TRUE, GNil)

\* C14 as stated: null decoded into a variable of Bool, integer, Float,
\* String, Struct or Array kind returns no error and leaves the variable as
\* it was; a text hook of its type is not called (it would fail on null).
C14_NullIgnored ==
  (Coerced /\ call.in = JNull /\ Kind(tgtType) \in ValueKinds) =>
    (ret = NoErr /\ tgt = call.before)

\* C14, amended: the same for every such variable whose type has no
\* raw-value hook; a type with a raw-value hook is handed null like any
\* other value.
C14_NullIgnoredWithoutRawHook ==
  (Coerced /\ call.in = JNull /\ Dest.u = "none" /\ Kind(Dest.T) \in ValueKinds) =>
    (ret = NoErr /\ tgt = call.before)

C14_TextHookNotCalled ==
  /\ Coerced
  /\ call.in = JNull
  /\ tgtType = "unmarshalerText"
  /\ call.before = Preset("unmarshalerText")
  /\ ret = NoErr
  /\ tgt = call.before

\* ------------------------------------------------------------------------
\* Numbers in an interface
\* ------------------------------------------------------------------------
\* what a number literal leaves in an interface destination that held old
NumberInInterface(lit, old, now) ==
  LET Parsed(pf) ==
        IF pf.err = "none" THEN ret = NoErr /\ now = GFloat(pf.f)
        ELSE ret = UnmarshalTypeError(<<"number ">> \o lit, "float64") /\ now = old
  IN  IF useNumber THEN ret = NoErr /\ now = GNumber(lit)
      ELSE Parsed(ParseFloat(lit, 64))

\* C15 as stated: a Number decoded into a variable of type interface{}
\* leaves in it the float64 of the literal, or with UseNumber the literal as
\* a Number, whatever the variable held (a literal outside the float64 range
\* is a type error).
C15_NumberInInterface ==
  (Coerced /\ call.in.k = "number" /\ tgtType = "interface{}") =>
    NumberInInterface(call.in.s, call.before, tgt)

\* C15, amended: the same for every interface destination indirect arrives
\* at; an interface that holds a non-nil pointer is not one: the number is
\* decoded into what the pointer points to.
C15_NumberInInterfaceDestination ==
  (Coerced /\ call.in.k = "number" /\ Dest.u = "none" /\ Kind(Dest.T) = "Interface") =>
    NumberInInterface(call.in.s, Dest.pv, DestNow)

C15_LiteralKept ==
  /\ Coerced
  /\ call.in = JNum(<<"1", "e", "2">>)
  /\ tgtType = "interface{}"
  /\ call.before = GString(<<"p">>)
  /\ useNumber
  /\ ret = NoErr
  /\ tgt = GNumber(<<"1", "e", "2">>)

\* ------------------------------------------------------------------------
\* Hook dispatch
\* ------------------------------------------------------------------------
\* the switch on in.(type) alone, with no look at the methods of T
GenericMatrix(in, T, out, ec) ==
  CASE in.k = "null" -> decodeNil(T, out, ec)
    [] in.k = "bool" -> decodeBool(in, T, out, ec)
    [] in.k = "number" -> decodeNumber(in, T, out, ec)
    [] in.k = "string" -> decodeString(in, T, out, ec)
    [] in.k = "array" -> decodeArray(in, T, out, ec)
    [] in.k = "object" -> decodeObject(in, T, out, ec)

\* the dispatch of the hook protocol: the raw-value hook for every value,
\* else the text hook for the text of a string or of a number, else the switch
HookProtocol(in, T, out, ec) ==
  LET Called(r) == Result(r.v, r.err, ec)
  IN  IF TypeDesc(T).hookJSON THEN Called(UnmarshalJSON(T, Marshal(in), out))
      ELSE IF TypeDesc(T).hookText /\ in.k \in {"string", "number"}
      THEN Called(UnmarshalText(T, in.s, out))
      ELSE GenericMatrix(in, T, out, ec)

HookBearing == {T \in HookTypes : Kind(T) # "Ptr" /\ (TypeDesc(T).hookJSON \/ TypeDesc(T).hookText)}

Dispatched(r) == tgt = r.v /\ ret = r.err

\* C16: a value decoded into a variable whose type has a raw-value hook is
\* handed to that hook as its JSON encoding, whatever its kind; into a type
\* with only a text hook, the text of a string or of a number is handed to
\* the text hook, and every other value is decoded by the generic switch.
C16_HookDispatch ==
  (Coerced /\ tgtType \in HookBearing) =>
    Dispatched(HookProtocol(call.in, tgtType, call.before, NoContext))

\* ------------------------------------------------------------------------
\* The error context of a struct field
\* ------------------------------------------------------------------------
\* the error of decoding the member m of V alone into the variable
AloneInV(m) ==
  decode(JObj(<<Mem(<<"V">>, JObj(<<m>>))>>), "VOuter", call.before, NoContext).err

\* the members of the object under the key V of the last value
MembersOfV == call.in.o[1].val.o

FirstMismatch(o, i) ==
  /\ AloneInV(o[i]).e = "UnmarshalTypeError"
  /\ \A j \in 1..(i - 1) : AloneInV(o[j]).e # "UnmarshalTypeError"

\* C17: when Decode of {"V": {...}} into a VOuter returns a type error, the
\* error names the struct V and the field selected by the first member whose
\* value does not fit its field, whatever members come before it.
C17_FieldContext ==
  (/\ Coerced
   /\ tgtType = "VOuter"
   /\ call.in.k = "object"
   /\ Len(call.in.o) = 1
   /\ call.in.o[1].val.k = "object"
   /\ ret.e = "UnmarshalTypeError") =>
    \E i \in 1..Len(MembersOfV) :
      /\ FirstMismatch(MembersOfV, i)
      /\ ret.Struct = "V"
      /\ ret.Field = FieldForKey("V", MembersOfV[i].key).name

\* ------------------------------------------------------------------------
\* json.Marshal of the caller's variable, as the value a Decoder reads back
\* from the text: numbers by their literal, strings by their content
\* ------------------------------------------------------------------------
RECURSIVE NMulPow5(_, _)
NMulPow5(x, k) == IF k <= 0 THEN x ELSE NMulPow5(NMulAdd(x, 5, 0), k - 1)

RECURSIVE Zeros(_)
Zeros(n) == IF n <= 0 THEN << >> ELSE <<"0">> \o Zeros(n - 1)

\* the exact decimal of |f|: 0.d1 d2 ... dn * 10^dp
ExactDecimal(f) ==
  LET Of(ds, shift) == [d |-> ds, dp |-> Len(ds) - shift]
  IN  IF f.e >= 0 THEN Of(NToDigits(NShl(f.m, f.e)), 0)
      ELSE Of(NToDigits(NMulPow5(f.m, 0 - f.e)), 0 - f.e)

\* a decimal rounded to n digits, to nearest, ties to even
RoundDigits(x, n) ==
  LET Up(rest, kept) ==
        \/ DigitVal(rest[1]) > 5
        \/ /\ DigitVal(rest[1]) = 5
           /\ \/ \E i \in 2..Len(rest) : rest[i] # "0"
              \/ NOdd(kept)
      Carried(ds) == [d |-> ds, dp |-> x.dp + (Len(ds) - n)]
      Cut(kept, rest) == Carried(NToDigits(IF Up(rest, kept) THEN NInc(kept) ELSE kept))
  IN  IF Len(x.d) <= n THEN x
      ELSE Cut(NFromDigits(SubSeq(x.d, 1, n)), SubSeq(x.d, n + 1, Len(x.d)))

\* digits * 10^(dp - number of digits), as a text strconv.ParseFloat reads
DecimalText(x) == x.d \o <<"e">> \o IFormat(Small(x.dp - Len(x.d)))

\* the shortest decimal that strconv.ParseFloat reads back as |f|
RECURSIVE ShortestFrom(_, _, _, _)
ShortestFrom(f, bitSize, x, n) ==
  LET Back(r, pf) ==
        IF n >= 17 \/ (pf.err = "none" /\ pf.f = [f EXCEPT !.neg = FALSE]) THEN r
        ELSE ShortestFrom(f, bitSize, x, n + 1)
      Try(r) == Back(r, ParseFloat(DecimalText(r), bitSize))
  IN  Try(RoundDigits(x, n))

RECURSIVE TrimZeros(_)
TrimZeros(ds) ==
  IF Len(ds) > 1 /\ ds[Len(ds)] = "0" THEN TrimZeros(SubSeq(ds, 1, Len(ds) - 1)) ELSE ds

\* strconv.AppendFloat(b, f, 'f', -1, bits) and 'e', for the digits x
FormatF(x) ==
  IF x.dp <= 0 THEN <<"0", ".">> \o Zeros(0 - x.dp) \o x.d
  ELSE IF x.dp >= Len(x.d) THEN x.d \o Zeros(x.dp - Len(x.d))
  ELSE SubSeq(x.d, 1, x.dp) \o <<".">> \o SubSeq(x.d, x.dp + 1, Len(x.d))

\* with the exponent cleaned up as floatEncoder does: e-09 becomes e-9
FormatE(x) ==
  LET Exp(n) ==
        IF n < 0 THEN <<"-">> \o NFormat(Small(0 - n).mag)
        ELSE <<"+">> \o (IF n < 10 THEN <<"0">> ELSE << >>) \o NFormat(Small(n).mag)
  IN  <<x.d[1]>> \o (IF Len(x.d) > 1 THEN <<".">> \o Tail(x.d) ELSE << >>)
        \o <<"e">> \o Exp(x.dp - 1)

\* floatEncoder: the number literal of a finite float
FormatFloat(f, bitSize) ==
  LET Sign == IF f.neg THEN <<"-">> ELSE << >>
      Shaped(x, sh) ==
        IF x.dp <= 0 - 6 \/ x.dp >= 22 THEN FormatE(sh) ELSE FormatF(sh)
      Digits(x, sh) == Shaped(x, [sh EXCEPT !.d = TrimZeros(sh.d)])
      Of(x) == Digits(x, ShortestFrom(f, bitSize, x, 1))
  IN  IF f.m = NZero THEN Sign \o <<"0">>
      ELSE Sign \o Of(ExactDecimal(f))

UnsupportedValueError == [e |-> "UnsupportedValueError"]

InvalidNumberLiteral == [e |-> "invalid number literal"]

Enc(j) == [err |-> NoErr, j |-> j]

EncFail(err) == [err |-> err, j |-> JNull]

\* the entries of a map with string keys, sorted by key
RECURSIVE SortedEntries(_)
SortedEntries(m) ==
  IF m = {} THEN << >>
  ELSE LET Least(x) == <<x>> \o SortedEntries(m \ {x})
       IN  Least(CHOOSE x \in m : \A y \in m : y = x \/ TextLess(x.k.s, y.k.s))

\* the encoding of a value by its dynamic type (an interface's content) or,
\* for the numeric kinds, by the width bitSize of the variable
RECURSIVE Encoded(_, _)
Encoded(g, bitSize) ==
  LET Elems(es) ==
        IF \E i \in 1..Len(es) : es[i].err # NoErr
        THEN EncFail(es[CHOOSE i \in 1..Len(es) : es[i].err # NoErr].err)
        ELSE Enc(JArr([i \in 1..Len(es) |-> es[i].j]))
      Fields(ks, es) ==
        IF \E i \in 1..Len(es) : es[i].err # NoErr
        THEN EncFail(es[CHOOSE i \in 1..Len(es) : es[i].err # NoErr].err)
        ELSE Enc(JObj([i \in 1..Len(es) |-> Mem(ks[i].k.s, es[i].j)]))
      Entries(ks) == Fields(ks, [i \in 1..Len(ks) |-> Encoded(ks[i].v, 64)])
  IN  CASE g.g = "nil" -> Enc(JNull)
        [] g.g = "bool" -> Enc(JBool(g.b))
        [] g.g = "int" -> Enc(JNum(IFormat(g.n)))
        [] g.g = "uint" -> Enc(JNum(NFormat(g.u)))
        [] g.g = "float" ->
             IF g.f.cls # "fin" THEN EncFail(UnsupportedValueError)
             ELSE Enc(JNum(FormatFloat(g.f, bitSize)))
        [] g.g = "string" -> Enc(JStr(g.s))
        [] g.g = "Number" ->
             IF g.lit = << >> THEN Enc(JNum(<<"0">>))
             ELSE IF IsJSONNumber(g.lit) THEN Enc(JNum(g.lit))
             ELSE EncFail(InvalidNumberLiteral)
        [] g.g = "slice" ->
             IF g.isnil THEN Enc(JNull)
             ELSE Elems([i \in 1..g.len |-> Encoded(g.arr[i], 64)])
        [] g.g = "map" -> IF g.isnil THEN Enc(JNull) ELSE Entries(SortedEntries(g.m))

\* reflect.DeepEqual of two values of one type: floats by ==
DeepEqual(a, b) ==
  IF a.g = "float" /\ b.g = "float"
  THEN a.f.cls # "nan" /\ b.f.cls # "nan" /\ (a.f = b.f \/ (FIsZero(a.f) /\ FIsZero(b.f)))
  ELSE a = b

\* Marshal of the variable, then Decode of the text into a new variable of
\* the same type, agrees with the variable
RoundTrips(T, g) ==
  LET Again(r) == r.err = NoErr /\ DeepEqual(r.v, g)
      Back(en) == en.err = NoErr /\ Again(decode(en.j, T, Zero(T), NoContext))
  IN  Back(Encoded(g, IF Kind(T) = "Float32" THEN 32 ELSE 64))

\* C18: whenever Decode into a variable of a scalar type or an interface{}
\* returns no error, json.Marshal of the variable succeeds, and Decode of
\* its text into a new variable of the same type, with the same UseNumber
\* setting, succeeds and gives a value equal to the variable.
C18_RoundTrip ==
  (Coerced /\ ret = NoErr /\ tgtType \in ScalarTypes) => RoundTrips(tgtType, tgt)

\* ------------------------------------------------------------------------
\* Nesting
\* ------------------------------------------------------------------------
\* how deep the arrays and objects of a value are nested
RECURSIVE Nesting(_)
Nesting(j) ==
  LET Deepest(S) == IF S = {} THEN 0 ELSE CHOOSE d \in S : \A e \in S : e <= d
  IN  CASE j.k = "array" -> 1 + Deepest({Nesting(j.a[i]) : i \in 1..Len(j.a)})
        [] j.k = "object" -> 1 + Deepest({Nesting(j.o[i].val) : i \in 1..Len(j.o)})
        [] OTHER -> 0

\* how many VOuter deep the variable has been filled in: the pointers F4
RECURSIVE Filling(_)
Filling(g) == IF g.fs[1].fs[4].isnil THEN 1 ELSE 1 + Filling(g.fs[1].fs[4].p)

\* The Decoder has no field for a limit and decode has no counter; the
\* limit of the claim is taken below the nesting of the deepest value read.
DepthLimit == 2 * MaxNest

\* C19: a value nested deeper than the limit makes Decode return an error,
\* and decode never goes deeper into the variable than the limit.
C19_DepthBounded ==
  (Coerced /\ tgtType = "VOuter") =>
    /\ Nesting(call.in) > DepthLimit => ret # NoErr
    /\ 2 * Filling(tgt) <= DepthLimit + 1

\* ------------------------------------------------------------------------
\* Strings into numbers
\* ------------------------------------------------------------------------
NumericKinds == IntKinds \cup UintKinds \cup FloatKinds

\* the zero of a numeric kind
ZeroOf(k) ==
  IF k \in IntKinds THEN GInt(IntZero)
  ELSE IF k \in UintKinds THEN GUint(NZero)
  ELSE GFloat(FZero)

\* the text is a decimal number
Numeric(t) == ScanDecimal(t).ok

\* the same outcome as the Number literal with the same text
AsNumberLiteral(t) ==
  LET Same(r) == tgt = r.v /\ (ret = NoErr <=> r.err = NoErr)
  IN  Same(decode(JNum(t), tgtType, call.before, NoContext))

\* C20: a string decoded into an integer or float variable stores zero when
\* it is empty, has the outcome of the Number literal with the same text
\* when it is a number, and is otherwise a type error that leaves the
\* variable as it was.
C20_NumericString ==
  (Coerced /\ call.in.k = "string" /\ Kind(tgtType) \in NumericKinds) =>
    IF call.in.s = << >> THEN ret = NoErr /\ tgt = ZeroOf(Kind(tgtType))
    ELSE IF Numeric(call.in.s) THEN AsNumberLiteral(call.in.s)
    ELSE /\ ret = withErrorContext(UnmarshalTypeError(<<"string">>, tgtType), NoContext)
         /\ tgt = call.before

\* ------------------------------------------------------------------------
\* Map keys that unmarshal themselves
\* ------------------------------------------------------------------------
\* what the key type's UnmarshalText makes of a key
HookKey(key) == UnmarshalText(KeyType(tgtType), key, Zero(KeyType(tgtType)))

KeyedObject(a) == JObj([i \in 1..Len(a) |-> Mem(Itoa(i - 1), a[i])])

\* C22: an Array decoded into a Map or a Struct has the outcome of the
\* Object keyed by the indices decoded into the same variable: the same
\* entries or fields, held in the same representation, and the same error.
C22_ArrayAsObject ==
  (Coerced /\ call.in.k = "array" /\ Kind(tgtType) \in {"Map", "Struct"}) =>
    LET Same(r) == tgt = r.v /\ ret = r.err
    IN  Same(decode(KeyedObject(call.in.a), tgtType, call.before, NoContext))

\* ------------------------------------------------------------------------
\* Numbers inside a generic tree
\* ------------------------------------------------------------------------
\* no json.Number anywhere in the value an interface holds
RECURSIVE NoNumber(_)
NoNumber(g) ==
  CASE g.g = "Number" -> FALSE
    [] g.g = "slice" -> \A i \in 1..g.len : NoNumber(g.arr[i])
    [] g.g = "map" -> \A e \in g.m : NoNumber(e.v)
    [] OTHER -> TRUE

\* the last call stored a generic tree: an array or an object went into an
\* interface{} that held no pointer, or an object into a string-keyed map of
\* interface{} that was empty
GenericTree ==
  /\ Coerced
  /\ ret = NoErr
  /\ \/ /\ call.in.k \in {"array", "object"}
        /\ tgtType = "interface{}"
        /\ call.before.g # "held"
     \/ /\ call.in.k = "object"
        /\ tgtType = "map[string]interface{}"
        /\ call.before.m = {}

\* C23: without UseNumber, the generic tree stored for an array or an
\* object holds no Number at any depth: every number in it is a float64.
C23_NoNumberSurvives == (GenericTree /\ ~useNumber) => NoNumber(tgt)

\* ------------------------------------------------------------------------
\* Fixed-length arrays
\* ------------------------------------------------------------------------
\* C24: a fixed-length array keeps its length.  After an array went in, the
\* first min(n, length) positions hold the elements decoded in place, the
\* elements past the length are dropped and the other positions are zero.
\* After an object with non-negative integer keys went in, a position holds
\* the value of its key decoded from zero, the keys at or past the length are
\* dropped and the other positions are zero.
C24_FixedArray ==
  (Coerced /\ Kind(tgtType) = "Array" /\ ret = NoErr) =>
    LET d == TypeDesc(tgtType)
        o == call.in.o
        InPlace(i) == decode(call.in.a[i], d.elem, call.before.elems[i], NoContext).v
        Keyed(i) == {j \in 1..Len(o) : o[j].key = Itoa(i - 1)}
        FromZero(js) == IF js = {} THEN Zero(d.elem)
                        ELSE Coerce(o[CHOOSE j \in js : TRUE].val, d.elem).v
    IN  /\ Len(tgt.elems) = d.len
        /\ call.in.k = "array" =>
             \A i \in 1..d.len :
               tgt.elems[i] = IF i <= Len(call.in.a) THEN InPlace(i) ELSE Zero(d.elem)
        /\ (call.in.k = "object" /\ IndexKeys(o)) =>
             \A i \in 1..d.len : tgt.elems[i] = FromZero(Keyed(i))

\* [7,300] went into a [1]int that held 5: the 300 was dropped
C24_SecondElementDropped ==
  /\ Coerced
  /\ tgtType = "[1]int"
  /\ call.before = Preset("[1]int")
  /\ call.in = JArr(<<JNum(<<"7">>), JNum(<<"3", "0", "0">>)>>)
  /\ ret = NoErr
  /\ tgt = GArray(<<GInt(Small(7))>>)

\* ------------------------------------------------------------------------
\* Object into Map: allocation, scratch value, failure
\* ------------------------------------------------------------------------
\* an object went into a map whose key type is accepted, past the shortcut
\* for an empty string-keyed map of interface{}
ObjectIntoMap ==
  /\ Coerced
  /\ call.in.k = "object"
  /\ Kind(tgtType) = "Map"
  /\ KeyKindOK(KeyType(tgtType))
  /\ ~(/\ Kind(KeyType(tgtType)) = "String"
       /\ Kind(TypeDesc(tgtType).elem) = "Interface"
       /\ call.before.m = {})

\* the map key a key text stands for, when it is accepted
MapKeyOf(key) ==
  LET kk == Kind(KeyType(tgtType))
  IN  CASE kk = "String" -> GString(key)
        [] kk # "String" /\ TypeDesc(KeyType(tgtType)).hookText -> HookKey(key).v
        [] OTHER -> KeyOf(key, kk)

Matching(T, key) ==
  LET fields == cachedTypeFields(T)
      exact == {i \in 1..Len(fields) : fields[i].name = key}
      fold == {i \in 1..Len(fields) : LowerText(fields[i].name) = LowerText(key)}
  IN  IF exact # {} THEN fields[CHOOSE i \in exact : TRUE]
      ELSE IF fold # {} THEN fields[CHOOSE i \in fold : \A j \in fold : i <= j]
      ELSE NoField

\* the struct after the members from i on were given to their matching fields
RECURSIVE Matched(_, _, _, _)
Matched(o, i, T, out) ==
  LET Given(f) ==
        IF f = NoField THEN out
        ELSE decodeField(o[i].val, T, out, f.index, NoContext).v
  IN  IF i > Len(o) THEN out
      ELSE Matched(o, i + 1, T, Given(Matching(T, o[i].key)))

\* C26: a key goes to the field of exactly that name wherever the field
\* sits, and only when there is none to the earliest field whose name equals
\* the key when case is ignored.
C26_ExactNameFirst ==
  (Coerced /\ Kind(tgtType) = "Struct" /\ call.in.k = "object" /\ ret = NoErr) =>
    tgt = Matched(call.in.o, 1, tgtType, call.before)

\* {"Hello":1} set the second field of Ambig, past the first field HELLO
C26_ExactPastEarlierFold ==
  /\ Coerced
  /\ tgtType = "Ambig"
  /\ call.before = Preset("Ambig")
  /\ call.in = JObj(<<Mem(<<"H", "e", "l", "l", "o">>, JNum(<<"1">>))>>)
  /\ ret = NoErr
  /\ tgt = GStruct(<<GInt(Small(5)), GInt(Small(1))>>)

\* ------------------------------------------------------------------------
\* The error context while one field is decoded
\* ------------------------------------------------------------------------
\* what decoding member i of the object as its field alone returns, with no
\* context set: a type error raised inside a deeper struct field carries that
\* field's names, one raised in the field's own value carries none
FieldAlone(i) ==
  decodeField(call.in.o[i].val, tgtType, call.before,
              Matching(tgtType, call.in.o[i].key).index, NoContext).err

\* a JSON value with a number somewhere in it
RECURSIVE HoldsNumber(_)
HoldsNumber(v) ==
  CASE v.k = "number" -> TRUE
    [] v.k = "array" -> \E i \in 1..Len(v.a) : HoldsNumber(v.a[i])
    [] v.k = "object" -> \E i \in 1..Len(v.o) : HoldsNumber(v.o[i].val)
    [] OTHER -> FALSE

\* the last call failed in the only member of the object, in the value of
\* its field and not inside a deeper struct field, on an object or an array
\* without numbers
RaisedInField ==
  /\ Coerced
  /\ Kind(tgtType) = "Struct"
  /\ call.in.k = "object"
  /\ Len(call.in.o) = 1
  /\ call.in.o[1].val.k \in {"object", "array"}
  /\ ~HoldsNumber(call.in.o[1].val)
  /\ Matching(tgtType, call.in.o[1].key) # NoField
  /\ ret.e = "UnmarshalTypeError"
  /\ FieldAlone(1).e = "UnmarshalTypeError"
  /\ FieldAlone(1).Struct = ""
  /\ FieldAlone(1).Field = << >>

\* C27: a type error raised while the value of field f of struct S is
\* decoded, and not inside a deeper struct field, names S and f, also when a
\* nested struct inside the value was decoded before the error.
C27_ContextUntilFieldDone ==
  RaisedInField =>
    /\ ret.Struct = TypeDesc(tgtType).name
    /\ ret.Field = Matching(tgtType, call.in.o[1].key).name

\* ------------------------------------------------------------------------
\* decode call by call: a scalar into containers, among them types that
\* contain themselves (type Rec []Rec, type RecMap map[string]RecMap,
\* type RecStruct struct with a field *RecStruct tagged "0")
\* ------------------------------------------------------------------------
\* frames the goroutine stack has room for
MaxFrames == 5

Fatal(msg) == [e |-> "fatal", msg |-> msg]

\* the type indirect arrives at when the value is not null
RECURSIVE Under(_)
Under(T) == IF Kind(T) = "Ptr" THEN Under(TypeDesc(T).elem) ELSE T

\* the call of decode that the call fr makes for a scalar or for the object
\* a scalar was wrapped in, or None when it makes none
Nested(fr) ==
  LET Frame(v, T) == [in |-> v, T |-> T]
      Field(v, f) == IF f = NoField THEN None ELSE Frame(v, f.typ)
      Into(v, T, d) ==
        CASE d.hookJSON \/ d.hookText \/ d.kind = "Interface" -> None
          [] v.k \in {"bool", "number", "string"} /\ d.kind = "Slice" ->
               IF v.k = "string" /\ Kind(d.elem) = "Uint8" THEN None ELSE Frame(v, d.elem)
          [] v.k \in {"bool", "number", "string"} /\ d.kind \in {"Map", "Struct"} ->
               Frame(JObj(<<Mem(<<"0">>, v)>>), T)
          [] v.k = "object" /\ d.kind = "Map" ->
               IF v.o = << >> \/ ~KeyKindOK(d.key)
                  \/ (Kind(d.key) = "String" /\ Kind(d.elem) = "Interface")
               THEN None
               ELSE Frame(v.o[1].val, d.elem)
          [] v.k = "object" /\ d.kind = "Struct" ->
               IF v.o = << >> THEN None ELSE Field(v.o[1].val, FieldForKey(T, v.o[1].key))
          [] OTHER -> None
  IN  Into(fr.in, Under(fr.T), TypeDesc(Under(fr.T)))

\* Decode up to its call of decode
DecodeCall(v) ==
  LET Read(rd) ==
        /\ call' = [op |-> "decode", v |-> v, in |-> rd.iv, before |-> tgt, pos |-> pos]
        /\ IF rd.err # NoErr
           THEN /\ ret' = rd.err
                /\ UNCHANGED <<pos, stack>>
           ELSE IF v # "pointer"
           THEN /\ pos' = pos + 1
                /\ ret' = InvalidUnmarshalError(v)
                /\ UNCHANGED stack
           ELSE /\ pos' = pos + 1
                /\ stack' = <<[in |-> rd.iv, T |-> tgtType]>>
                /\ UNCHANGED ret
  IN  /\ ret.e \notin {"panic", "fatal"}
      /\ Idle
      /\ Read(ReadValue)
      /\ UNCHANGED <<build, input, useNumber, disallowUnknownFields, errorContext, tgtType, tgt>>

\* the innermost call of decode calls decode
decodeCall ==
  /\ stack # << >>
  /\ ret.e # "fatal"
  /\ Len(stack) < MaxFrames
  /\ Nested(stack[Len(stack)]) # None
  /\ stack' = Append(stack, Nested(stack[Len(stack)]))
  /\ UNCHANGED <<build, input, pos, useNumber, disallowUnknownFields, errorContext, tgtType,
                 tgt, ret, call>>

\* the innermost call of decode calls decode and the stack has no room: the
\* runtime ends the program
StackOverflow ==
  /\ stack # << >>
  /\ ret.e # "fatal"
  /\ Len(stack) = MaxFrames
  /\ Nested(stack[Len(stack)]) # None
  /\ ret' = Fatal("stack overflow")
  /\ UNCHANGED <<build, input, pos, useNumber, disallowUnknownFields, errorContext, tgtType,
                 tgt, call, stack>>

\* the innermost call makes no further call: every call in progress returns
decodeReturn ==
  /\ stack # << >>
  /\ ret.e # "fatal"
  /\ Nested(stack[Len(stack)]) = None
  /\ stack' = << >>
  /\ call' = [call EXCEPT !.op = "return"]
  /\ UNCHANGED <<build, input, pos, useNumber, disallowUnknownFields, errorContext, tgtType,
                 tgt, ret>>

\* Decode returns what its call of decode returned
DecodeReturn ==
  LET Stored(r) ==
        /\ tgt' = r.v
        /\ ret' = r.err
        /\ errorContext' = r.ec
  IN  /\ call.op = "return"
      /\ call' = [call EXCEPT !.op = "Decode"]
      /\ Stored(decode(call.in, tgtType, tgt, errorContext))
      /\ UNCHANGED <<build, input, pos, useNumber, disallowUnknownFields, tgtType, stack>>

WrapTypes ==
  {"Rec", "RecMap", "RecStruct", "[][]int", "[]phpArray", "map[string]string", "[]uint8"}

WrapInputs == {JNull, JBool(TRUE), JNum(<<"7">>), JStr(<<"b">>), JArr(<< >>)}

InitWrap ==
  /\ build = [arch |-> "amd64", uint64Exact |-> TRUE]
  /\ \E T \in WrapTypes : \E x \in WrapInputs : Start(<<x>>, T, Zero(T))

NextWrap ==
  \/ \E v \in Args : DecodeCall(v)
  \/ decodeCall
  \/ decodeReturn
  \/ DecodeReturn
  \/ StackOverflow
  \/ DisallowUnknownFields
  \/ UseNumber

\* a call in progress goes on: the goroutine runs
SpecWrap == InitWrap /\ [][NextWrap]_vars /\ WF_vars(decodeCall \/ decodeReturn \/ StackOverflow)

\* C28: Decode terminates for every value and every type of the variable,
\* the types that contain themselves included: every call of decode in
\* progress returns.
C28_DecodeReturns == [](stack # << >> => <>(stack = << >>))

\* ------------------------------------------------------------------------
\* Streams of several values, with values that a variable of the type
\* rejects: a type mismatch, an overflow, an unknown field, a malformed key,
\* a failing hook
\* ------------------------------------------------------------------------
StreamTypes == {"int8", "T", "VOuter", "map[int8]string", "u8marshal"}

StreamValues(T) ==
  CASE T = "int8" -> {JNum(<<"7">>), JNum(<<"3", "0", "0">>), JStr(<<"b">>)}
    [] T = "T" ->
         {JObj(<<Mem(<<"Y">>, JNum(<<"1">>))>>), JObj(<<Mem(<<"Y">>, JStr(<<"a">>))>>),
          JObj(<<Mem(<<"Q">>, JNum(<<"1">>))>>)}
    [] T = "VOuter" ->
         {JObj(<<Mem(<<"V">>, JObj(<<Mem(<<"F", "2">>, JNum(<<"1">>))>>))>>),
          JObj(<<Mem(<<"V">>, JObj(<<Mem(<<"F", "2">>, JStr(<<"a">>))>>))>>),
          JStr(<<"a">>)}
    [] T = "map[int8]string" ->
         {JObj(<<Mem(<<"0">>, JStr(<<"b">>))>>), JObj(<<Mem(<<"x">>, JStr(<<"b">>))>>),
          JObj(<<Mem(<<"1", "2", "8">>, JStr(<<"b">>))>>)}
    [] T = "u8marshal" -> {JStr(<<"u", "2">>), JStr(<<"2">>), JNum(<<"7">>)}

MaxStream == 2

Streams(T) == UNION {[1..n -> StreamValues(T)] : n \in 1..MaxStream}

InitStream ==
  /\ build = [arch |-> "amd64", uint64Exact |-> TRUE]
  /\ \E T \in StreamTypes : \E v \in {Zero(T), Preset(T)} : \E stream \in Streams(T) :
       Start(stream, T, v)

SpecStream == InitStream /\ [][Next]_vars

\* C29: a Decode with a valid target, with a value left in the stream,
\* consumes exactly that one value whatever the call before it returned, and
\* its outcome is that of decoding this value into the variable as it is:
\* nothing of an earlier failure is left in the Decoder.
C29_OneValuePerCall ==
  [][(/\ call'.op = "Decode"
      /\ call'.v = "pointer"
      /\ pos < Len(input)) =>
       LET Outcome(r) == tgt' = r.v /\ ret' = r.err
       IN  /\ pos' = pos + 1
           /\ call'.in = input[pos + 1]
           /\ Outcome(decode(input[pos + 1], tgtType, tgt, NoContext))]_vars

\* "b" then 7 were read into an int8: the first call failed, as "b" always
\* does, and the second call stored 7
C29_SecondValueAfterFailure ==
  /\ tgtType = "int8"
  /\ input = <<JStr(<<"b">>), JNum(<<"7">>)>>
  /\ call.op = "Decode"
  /\ call.v = "pointer"
  /\ call.pos = 1
  /\ pos = 2
  /\ ret = NoErr
  /\ tgt = GInt(Small(7))

\* ------------------------------------------------------------------------
\* The error context between calls
\* ------------------------------------------------------------------------
\* a type with no struct in it
RECURSIVE Structless(_)
Structless(T) ==
  CASE Kind(T) = "Struct" -> FALSE
    [] Kind(T) \in {"Ptr", "Slice", "Array"} -> Structless(TypeDesc(T).elem)
    [] Kind(T) = "Map" -> Structless(TypeDesc(T).key) /\ Structless(TypeDesc(T).elem)
    [] OTHER -> TRUE

\* C30: whenever a call has returned, whatever it returned, the error
\* context of the Decoder is empty, and a type error returned for a variable
\* with no struct in it names no structure and no field.
C30_ContextEmptyBetweenCalls ==
  /\ ret.e # "panic" => errorContext = NoContext
  /\ (Coerced /\ ret.e = "UnmarshalTypeError" /\ Structless(tgtType)) =>
       ret.Struct = "" /\ ret.Field = << >>

\* the second Decode into a T failed in field Y, after a first call that
\* failed too, and the context is empty again
C30_EmptyAfterFieldError ==
  /\ Coerced
  /\ tgtType = "T"
  /\ call.pos = 1
  /\ input[1] = JObj(<<Mem(<<"Y">>, JStr(<<"a">>))>>)
  /\ ret.e = "UnmarshalTypeError"
  /\ ret.Struct = "T"
  /\ ret.Field = <<"Y">>
  /\ errorContext = NoContext

====
